---- MODULE Spec2Model ----
(***************************************************************************)
(* A model of the resource resolution engine of scrappy: the origin        *)
(* circuit breaker (core/circuit-breaker.js), the resource cache           *)
(* (createResourceCache), the dead letter queue, the fetch orchestrator    *)
(* (fetchResource / fetchResources over mapAsync) and the HTML processor   *)
(* (inlineCssUrls / processHtml).                                          *)
(*                                                                         *)
(* Each component has its own specification over the shared variables:     *)
(*   SpecBreaker   one breaker under concurrent execute calls and a clock  *)
(*   SpecFetch     concurrent fetchResource calls sharing the cache, the   *)
(*                 breaker registry and the dead letter queue              *)
(*   SpecRegistry  the breaker registry used for several hostnames         *)
(*   SpecDlq       concurrent enqueue calls on one dead letter queue       *)
(*   SpecCache     get and set calls on one resource cache                 *)
(*   SpecMany      one fetchResources call, its URLs mapped by mapAsync    *)
(*   SpecProcess   one processHtml call over a page and its stylesheets    *)
(*   SpecRepeat    processHtml called twice over a shared cache            *)
(*   SpecDiscover  URL discovery for a page, its stylesheet and a config   *)
(*   SpecMemo      calls of one memoizeAsync-wrapped function              *)
(*   SpecQuery     getEntries and getStats on a dead letter queue          *)
(*   SpecResult    the methods of Ok and Err values                        *)
(*   SpecCaptures  two fetchResources calls running at the same time       *)
(***************************************************************************)
EXTENDS Integers, Sequences, FiniteSets, TLC

VARIABLES
  now,          \* Date.now(), in ms
  cb,           \* one circuit breaker: state, failures, successes, lastFailure, openedAt
  cbPending,    \* operations admitted by execute and not yet settled
  cbEv,         \* history: the last thing that happened to the breaker
  cbStreak,     \* history: times of the failures recorded since the last success
  cbHoSucc,     \* history: successes recorded since HALF_OPEN was entered, no failure between
  cbOpenSince,  \* history: when the breaker last went from another state to OPEN
  cbNotified,   \* history: the onStateChange calls of the last operation, and the last call's to
  cbAdmitted,   \* history: in HALF_OPEN, the pending operations admitted before it was entered,
                \*          and the successes counted of operations admitted since
  cache,        \* resourceCache: the Map's entries, in insertion order
  breakers,     \* circuitBreakerRegistry: hostname -> breaker, created on first use
  dlq,          \* the dead letter queue's entries
  tasks,        \* the fetchResource calls, in the order they are made (evicted: history,
                \*          the call's cache lookup deleted an expired entry)
  urls,         \* fetchResources: its urls argument
  results,      \* fetchResources: the results Map (url -> outcome, times set)
  completed,    \* fetchResources: the completed counter
  executing,    \* mapAsync: the executing Set (indices of uniqueUrls)
  promises,     \* mapAsync: the state of each item's promise
  mapI,         \* mapAsync: the loop index i
  mapPc,        \* mapAsync: where its body stands
  html,         \* processHtml: its html argument, as the page's references
  sheets,       \* the body each stylesheet URL is served with
  procPc,       \* processHtml: where its body stands
  primaryResources, \* processHtml: the Map url -> Result it builds
  cssUrls,      \* processHtml: the second level URLs
  procResult,   \* processHtml: what it returned
  procError,    \* processHtml: what its try block threw
  regPending,   \* registry: per hostname, the operations execute is awaiting
  regEv,        \* history: the last call made on the registry or a breaker of it
  reports,      \* fetchResources: what onProgress was called with, call after call
  reported,     \* history: how often onProgress was called on the completion of each URL
  dqInitialized, \* dead letter queue: initialized
  dqStorage,    \* chrome.storage.local: what is stored under scrappy_dlq
  dqCalls,      \* the enqueue calls, in the order they are made
  cacheEv,      \* history: the last call made on the resource cache
  procRuns,     \* history: the processHtml calls made, and what each returned
  procEvents,   \* processHtml: what onProgress was called with, call after call
  input,        \* a function applied on its own: the arguments besides html and sheets
  output,       \* ... and what it returned
  memo,         \* memoizeAsync's closure: cache, pendingPromises, accessCounter
  memoLog,      \* history: the invocations of fn, the last call, the keys clear() dropped
  captures      \* fetchResources calls running side by side: each one's mapAsync

cbVars == <<cb, cbPending, cbEv, cbStreak, cbHoSucc, cbOpenSince, cbNotified, cbAdmitted>>
fetchVars == <<cache, breakers, dlq, tasks>>
manyVars ==
  <<urls, results, completed, executing, promises, mapI, mapPc, reports, reported>>
processVars ==
  <<html, sheets, procPc, primaryResources, cssUrls, procResult, procError, procEvents>>
regVars == <<regPending, regEv>>
dqVars == <<dqInitialized, dqStorage, dqCalls>>
memoVars == <<memo, memoLog>>
fnVars == <<input, output, memoVars, captures>>
unitVars == <<dqVars, cacheEv, procRuns, fnVars>>
vars == <<now, cbVars, fetchVars, manyVars, processVars, regVars, unitVars>>
nonCbVars == <<fetchVars, manyVars, processVars, regVars, unitVars>>
nonFetchVars == <<cbVars, manyVars, processVars, regVars, unitVars>>
nonManyVars == <<now, cbVars, fetchVars, processVars, regVars, unitVars>>
nonProcessVars == <<now, cbVars, fetchVars, manyVars, regVars, unitVars>>
nonRegVars == <<cbVars, cache, dlq, tasks, manyVars, processVars, unitVars>>
nonDqVars ==
  <<cbVars, cache, breakers, tasks, manyVars, processVars, regVars, cacheEv, procRuns,
    fnVars>>
nonCacheVars ==
  <<cbVars, breakers, dlq, tasks, manyVars, processVars, regVars, dqVars, procRuns,
    fnVars>>
nonRepeatVars ==
  <<cbVars, breakers, dlq, tasks, manyVars, regVars, dqVars, cacheEv, fnVars>>
nonFnVars ==
  <<now, cbVars, fetchVars, manyVars, regVars, dqVars, cacheEv, procRuns>>
nonQueryVars ==
  <<cbVars, cache, breakers, tasks, manyVars, processVars, regVars, cacheEv, procRuns,
    memoVars, captures, dqCalls>>
nonMemoVars ==
  <<cbVars, fetchVars, manyVars, processVars, regVars, dqVars, cacheEv, procRuns, input, output,
    captures>>
nonCaptureVars ==
  <<now, cbVars, fetchVars, manyVars, processVars, regVars, dqVars, cacheEv, procRuns, input,
    output, memoVars>>

\* null (circuit-breaker.js: lastFailure = null, openedAt = null)
Null == 0 - 1

(***************************************************************************)
(* Circuit breaker: core/circuit-breaker.js                                *)
(***************************************************************************)
\* the options the fetcher's registry is created with, and the default window
failureThreshold == 3
successThreshold == 2
timeout == 30000
monitorWindow == 60000

\* the clock advances in steps of half a timeout, up to MaxTicks steps
TickMs == timeout \div 2
MaxTicks == 5
MaxTime == MaxTicks * TickMs
\* how many operations one breaker has in flight at once
MaxPending == 2

createCircuitBreaker ==
  [state |-> "CLOSED", failures |-> <<>>, successes |-> 0,
   lastFailure |-> Null, openedAt |-> Null]

cleanOldFailures(failures, t) ==
  SelectSeq(failures, LAMBDA time : t - time < monitorWindow)

transitionToMutKeepSuccesses(b, newState, t) ==
  CASE newState = "OPEN" -> [b EXCEPT !.state = newState, !.openedAt = t]
    [] newState = "CLOSED" ->
         [b EXCEPT !.state = newState, !.failures = <<>>, !.successes = 0,
                   !.openedAt = Null]
    [] newState = "HALF_OPEN" ->
         [b EXCEPT !.state = newState, !.successes = 0]
transitionTo(b, newState, t) ==
  CASE newState = "OPEN" ->
         [b EXCEPT !.state = newState, !.openedAt = t, !.successes = 0]
    [] newState = "CLOSED" ->
         [b EXCEPT !.state = newState, !.failures = <<>>, !.successes = 0,
                   !.openedAt = Null]
    [] newState = "HALF_OPEN" ->
         [b EXCEPT !.state = newState, !.successes = 0]

\* shouldAttempt's return value
shouldAttemptMutAlways(b, t) == TRUE
shouldAttempt(b, t) ==
  IF b.state = "CLOSED" THEN TRUE
  ELSE IF b.state = "OPEN" THEN t - b.openedAt >= timeout
  ELSE TRUE

\* shouldAttempt's effect on the breaker
shouldAttemptStateMutRestartsOpen(b, t) ==
  IF b.state = "OPEN"
  THEN IF t - b.openedAt >= timeout THEN transitionTo(b, "HALF_OPEN", t)
       ELSE [b EXCEPT !.openedAt = t]
  ELSE b
shouldAttemptState(b, t) ==
  IF b.state = "OPEN" /\ t - b.openedAt >= timeout
  THEN transitionTo(b, "HALF_OPEN", t)
  ELSE b

recordSuccessMutAnyState(b, t) ==
  LET c == [b EXCEPT !.successes = @ + 1]
  IN IF b.state # "CLOSED" /\ c.successes >= successThreshold
     THEN transitionTo(c, "CLOSED", t) ELSE c
recordSuccess(b, t) ==
  IF b.state = "HALF_OPEN"
  THEN LET c == [b EXCEPT !.successes = @ + 1]
       IN IF c.successes >= successThreshold THEN transitionTo(c, "CLOSED", t) ELSE c
  ELSE b

recordFailureMutStaysHalfOpen(b, t) ==
  LET c == [b EXCEPT !.lastFailure = t]
  IN IF b.state = "CLOSED"
     THEN LET d == [c EXCEPT !.failures = Append(cleanOldFailures(@, t), t)]
          IN IF Len(d.failures) >= failureThreshold THEN transitionTo(d, "OPEN", t) ELSE d
     ELSE c
recordFailure(b, t) ==
  LET c == [b EXCEPT !.lastFailure = t]
  IN IF b.state = "HALF_OPEN" THEN transitionTo(c, "OPEN", t)
     ELSE IF b.state = "CLOSED"
     THEN LET d == [c EXCEPT !.failures = Append(cleanOldFailures(@, t), t)]
          IN IF Len(d.failures) >= failureThreshold THEN transitionTo(d, "OPEN", t) ELSE d
     ELSE c

reset(b, t) ==
  [transitionTo(b, "CLOSED", t) EXCEPT !.failures = <<>>, !.lastFailure = Null]

forceOpen(b, t) == transitionTo(b, "OPEN", t)

\* the states transitionTo is called with, in order, by the operation ev on the
\* breaker b: shouldAttempt (an execute call admitted or rejected, or a probe),
\* recordSuccess, recordFailure, reset, forceOpen
TransitionsOf(ev, b, t) ==
  CASE ev \in {"admit", "reject", "probe"} ->
         IF b.state = "OPEN" /\ t - b.openedAt >= timeout THEN <<"HALF_OPEN">> ELSE <<>>
    [] ev = "success" ->
         IF b.state = "HALF_OPEN" /\ b.successes + 1 >= successThreshold
         THEN <<"CLOSED">> ELSE <<>>
    [] ev = "failure" ->
         IF b.state = "HALF_OPEN" THEN <<"OPEN">>
         ELSE IF b.state = "CLOSED"
                 /\ Len(cleanOldFailures(b.failures, t)) + 1 >= failureThreshold
         THEN <<"OPEN">> ELSE <<>>
    [] ev = "reset" -> <<"CLOSED">>
    [] ev = "forceOpen" -> <<"OPEN">>
    [] OTHER -> <<>>

\* transitionTo: if (oldState !== newState) onStateChange({from: oldState, to:
\* newState, ...}); the calls made for the transitions of one operation
RECURSIVE onStateChangeCalls(_, _)
onStateChangeCalls(b, newStates) ==
  IF newStates = <<>> THEN <<>>
  ELSE (IF b.state # newStates[1]
        THEN <<[from |-> b.state, to |-> newStates[1]]>> ELSE <<>>)
         \o onStateChangeCalls([b EXCEPT !.state = newStates[1]], Tail(newStates))

\* ---- history bookkeeping of SpecBreaker (not program state) ----
Last(s, n) == IF Len(s) <= n THEN s ELSE SubSeq(s, Len(s) - n + 1, Len(s))

CbHistory(ev, c, early) ==
  /\ cbEv' = ev
  /\ cbStreak' = CASE ev = "failure" -> Last(Append(cbStreak, now), failureThreshold)
                   [] ev \in {"success", "reset"} -> <<>>
                   [] OTHER -> cbStreak
  /\ cbHoSucc' = CASE c.state = "HALF_OPEN" /\ cb.state # "HALF_OPEN" -> 0
                   [] ev = "success" /\ cb.state = "HALF_OPEN" -> cbHoSucc + 1
                   [] ev \in {"failure", "reset", "forceOpen"} -> 0
                   [] OTHER -> cbHoSucc
  /\ cbOpenSince' = IF c.state = "OPEN" /\ cb.state # "OPEN" THEN now ELSE cbOpenSince
  /\ cbAdmitted' =
       CASE c.state = "HALF_OPEN" /\ cb.state # "HALF_OPEN" -> [early |-> cbPending, counted |-> 0]
         [] c.state # "HALF_OPEN" /\ cb.state = "HALF_OPEN" ->
              [early |-> 0,
               counted |-> IF ev = "success" /\ ~early THEN cbAdmitted.counted + 1
                           ELSE cbAdmitted.counted]
         [] c.state = "HALF_OPEN" /\ cb.state = "HALF_OPEN" /\ ev \in {"success", "failure"} ->
              [early |-> IF early THEN cbAdmitted.early - 1 ELSE cbAdmitted.early,
               counted |-> IF ev = "success" /\ ~early THEN cbAdmitted.counted + 1
                           ELSE cbAdmitted.counted]
         [] OTHER -> cbAdmitted
  /\ LET calls == onStateChangeCalls(cb, TransitionsOf(ev, cb, now))
     IN cbNotified' = [calls |-> calls,
                       lastTo |-> IF calls = <<>> THEN cbNotified.lastTo
                                  ELSE calls[Len(calls)].to]

\* how many fetchResource calls are made (any number of them at the same time)
MaxCalls == 2
Slots == 1..MaxCalls

\* ---- the state the fetcher module starts with (part_005: module level) ----
FetchInit ==
  /\ cache = <<>>
  /\ breakers = <<>>
  /\ dlq = <<>>
  /\ tasks = [s \in Slots |->
                [pc |-> "idle", url |-> "", startAt |-> Null, mimeType |-> "",
                 size |-> 0, result |-> [ok |-> FALSE, errorCode |-> "pending",
                     value |-> [url |-> "", type |-> "", mimeType |-> "", size |-> 0]],
                 requested |-> FALSE, after |-> {}, evicted |-> FALSE]]

\* ---- fetchResources before it is called ----
ManyInit ==
  /\ urls = <<>>
  /\ results = <<>>
  /\ completed = 0
  /\ executing = {}
  /\ promises = <<>>
  /\ mapI = 1
  /\ mapPc = "idle"
  /\ reports = <<>>
  /\ reported = <<>>

\* ---- the operations on one breaker ----
CbTick ==
  /\ now + TickMs <= MaxTime
  /\ now' = now + TickMs
  /\ cbEv' = "tick"
  /\ cbNotified' = [cbNotified EXCEPT !.calls = <<>>]
  /\ UNCHANGED <<cb, cbPending, cbStreak, cbHoSucc, cbOpenSince, cbAdmitted, nonCbVars>>

\* execute(fn) up to its first await: rejected, or fn is invoked
CbExecuteCall ==
  /\ IF shouldAttempt(cb, now)
     THEN /\ cbPending < MaxPending
          /\ cb' = shouldAttemptState(cb, now)
          /\ cbPending' = cbPending + 1
          /\ CbHistory("admit", shouldAttemptState(cb, now), FALSE)
     ELSE /\ cb' = shouldAttemptState(cb, now)
          /\ cbPending' = cbPending
          /\ CbHistory("reject", shouldAttemptState(cb, now), FALSE)
  /\ UNCHANGED <<now, nonCbVars>>

\* whether one of the pending operations was admitted before the HALF_OPEN period
\* the breaker is in (early), or one admitted since
CanSettle(early) ==
  IF early THEN cbAdmitted.early > 0 ELSE cbPending > cbAdmitted.early

\* the awaited fn() resolved: recordSuccess
CbOpSucceeds(early) ==
  /\ CanSettle(early)
  /\ cb' = recordSuccess(cb, now)
  /\ cbPending' = cbPending - 1
  /\ CbHistory("success", recordSuccess(cb, now), early)
  /\ UNCHANGED <<now, nonCbVars>>

\* the awaited fn() threw: recordFailure
CbOpFails(early) ==
  /\ CanSettle(early)
  /\ cb' = recordFailure(cb, now)
  /\ cbPending' = cbPending - 1
  /\ CbHistory("failure", recordFailure(cb, now), early)
  /\ UNCHANGED <<now, nonCbVars>>

\* breaker.shouldAttempt() called directly (exported)
CbShouldAttempt ==
  /\ cb' = shouldAttemptState(cb, now)
  /\ CbHistory("probe", shouldAttemptState(cb, now), FALSE)
  /\ UNCHANGED <<now, cbPending, nonCbVars>>

CbReset ==
  /\ cb' = reset(cb, now)
  /\ CbHistory("reset", reset(cb, now), FALSE)
  /\ UNCHANGED <<now, cbPending, nonCbVars>>

CbForceOpen ==
  /\ cb' = forceOpen(cb, now)
  /\ CbHistory("forceOpen", forceOpen(cb, now), FALSE)
  /\ UNCHANGED <<now, cbPending, nonCbVars>>

\* ---- processHtml before it is called ----
ProcessInit ==
  /\ html = <<>>
  /\ sheets = <<>>
  /\ procPc = "idle"
  /\ primaryResources = <<>>
  /\ cssUrls = <<>>
  /\ procResult = [ok |-> FALSE, errorCode |-> "pending"]
  /\ procError = ""
  /\ procRuns = <<>>
  /\ procEvents = <<>>

\* ---- the registry before it is used ----
RegInit ==
  /\ regPending = <<>>
  /\ regEv = [op |-> "created", url |-> "", n |-> 0]

\* ---- a dead letter queue nothing was enqueued on, a cache never called ----
DqIdle ==
  /\ dqInitialized = FALSE
  /\ dqStorage = [has |-> FALSE, entries |-> <<>>]
  /\ dqCalls = <<>>

CacheIdle == cacheEv = [op |-> "created"]

\* ---- no function applied on its own ----
MemoKeys == {1, 2}
NoMemoEntry == [value |-> 0, timestamp |-> 0, accessCount |-> 0]

\* memoizeAsync(fn, options): const cache = new Map(); const pendingPromises =
\* new Map(); let accessCounter = 0. An entry of the cache that is not there has
\* accessCount 0, a key with no pending promise has promise 0.
MemoIdle ==
  /\ memo = [cache |-> [k \in MemoKeys |-> NoMemoEntry],
             pendingPromises |-> [k \in MemoKeys |-> 0],
             accessCounter |-> 0]
  /\ memoLog = [promises |-> <<>>, calls |-> 0, dropped |-> {},
                last |-> [key |-> 0, promise |-> 0, value |-> 0, invoked |-> FALSE]]

\* no fetchResources call has been made side by side with another
CapturesIdle == captures = <<>>

FnIdle ==
  /\ input = <<>>
  /\ output = [op |-> "none"]
  /\ MemoIdle
  /\ CapturesIdle

CbInit ==
  /\ cb = createCircuitBreaker
  /\ cbPending = 0
  /\ cbEv = "created"
  /\ cbStreak = <<>>
  /\ cbHoSucc = 0
  /\ cbOpenSince = Null
  /\ cbNotified = [calls |-> <<>>, lastTo |-> "none"]
  /\ cbAdmitted = [early |-> 0, counted |-> 0]

InitBreaker ==
  /\ now = 0
  /\ CbInit
  /\ FetchInit
  /\ ManyInit
  /\ ProcessInit
  /\ RegInit
  /\ FnIdle
  /\ DqIdle
  /\ CacheIdle

NextBreaker ==
  \/ CbTick
  \/ CbExecuteCall
  \/ \E early \in BOOLEAN : CbOpSucceeds(early)
  \/ \E early \in BOOLEAN : CbOpFails(early)
  \/ CbShouldAttempt
  \/ CbReset
  \/ CbForceOpen

SpecBreaker == InitBreaker /\ [][NextBreaker]_vars

\* C4: once failureThreshold failures in a row have been recorded inside
\* monitorWindow the breaker is OPEN, and an execute call made while the
\* breaker is OPEN and less than timeout has passed since it opened is
\* rejected (CIRCUIT_OPEN): no operation is invoked, the breaker is unchanged.
C4_OpenAfterThreshold ==
  [][ /\ ( /\ cbEv' = "failure"
           /\ Len(cbStreak') >= failureThreshold
           /\ now' - cbStreak'[1] < monitorWindow )
         => cb'.state = "OPEN"
      /\ ( /\ cbEv' \in {"admit", "reject"}
           /\ cb.state = "OPEN"
           /\ now - cbOpenSince < timeout )
         => (cbEv' = "reject" /\ cbPending' = cbPending /\ cb'.state = "OPEN")
    ]_vars

\* C4 witness: the threshold was reached, the breaker is OPEN and a call was rejected
C4_Witness ==
  /\ cbEv = "reject"
  /\ Len(cbStreak) >= failureThreshold
  /\ cb.state = "OPEN"
  /\ now - cbOpenSince < timeout

\* C5: unless reset or forceOpen is called, a breaker leaves OPEN only for
\* HALF_OPEN and only when at least timeout has passed since it opened, and
\* it becomes CLOSED only from HALF_OPEN, with successThreshold successes
\* recorded in HALF_OPEN and no failure between them.
C5_Recovery ==
  [][ cbEv' \notin {"reset", "forceOpen"} =>
        /\ (cb.state = "OPEN" /\ cb'.state # "OPEN")
             => (cb'.state = "HALF_OPEN" /\ now - cbOpenSince >= timeout)
        /\ (cb.state # "CLOSED" /\ cb'.state = "CLOSED")
             => (cb.state = "HALF_OPEN" /\ cbHoSucc' >= successThreshold)
    ]_vars

\* C5 witness: the breaker has closed again after its HALF_OPEN successes
C5_Witness ==
  /\ cb.state = "CLOSED"
  /\ cbEv = "success"
  /\ cbHoSucc >= successThreshold
  /\ cbOpenSince # Null

\* C29: in a step that is neither reset nor forceOpen the state changes, if at all,
\* from CLOSED to OPEN, from OPEN to HALF_OPEN, from HALF_OPEN to CLOSED or from
\* HALF_OPEN to OPEN; a failure recorded in HALF_OPEN leaves the breaker OPEN with
\* the open period starting now; onStateChange is called once when the state
\* changes, with the old and the new state, and not otherwise; an event's from is
\* the to of the event before it.
C29_Transitions ==
  [][ cbEv' \notin {"reset", "forceOpen"} =>
        /\ cb'.state # cb.state =>
             <<cb.state, cb'.state>> \in {<<"CLOSED", "OPEN">>, <<"OPEN", "HALF_OPEN">>,
                                          <<"HALF_OPEN", "CLOSED">>, <<"HALF_OPEN", "OPEN">>}
        /\ (cbEv' = "failure" /\ cb.state = "HALF_OPEN") =>
             (cb'.state = "OPEN" /\ cb'.openedAt = now)
        /\ cbNotified'.calls =
             IF cb'.state # cb.state THEN <<[from |-> cb.state, to |-> cb'.state]>> ELSE <<>>
        /\ \A i \in 1..Len(cbNotified'.calls) :
             /\ cbNotified'.calls[i].from # cbNotified'.calls[i].to
             /\ cbNotified.lastTo # "none" => cbNotified'.calls[i].from = cbNotified.lastTo
    ]_vars

\* C29 witness: a failure in HALF_OPEN has reopened the breaker, a timeout after it
\* first opened, and the callback was told so
C29_Witness ==
  /\ cbEv = "failure"
  /\ cbNotified.calls = <<[from |-> "HALF_OPEN", to |-> "OPEN"]>>
  /\ cb.state = "OPEN"
  /\ cb.openedAt = now
  /\ now >= timeout
  /\ cbOpenSince = now

\* C34: when the breaker goes from HALF_OPEN to CLOSED (not by reset), at least
\* successThreshold operations admitted in that HALF_OPEN period have succeeded;
\* the success of an operation admitted before the period is not counted
C34_ClosedByProbesOnly ==
  [][ (cb.state = "HALF_OPEN" /\ cb'.state = "CLOSED" /\ cbEv' # "reset") =>
        cbAdmitted'.counted >= successThreshold ]_vars

\* C35: an execute call that is rejected leaves the breaker as it was: state,
\* failures, successes, openedAt and lastFailure
C35_RejectionChangesNothing ==
  [][ cbEv' = "reject" => (cb' = cb /\ cbPending' = cbPending /\ cbNotified'.calls = <<>>) ]_vars

\* C35 witness: a call has been rejected by a breaker that opened at the threshold,
\* half a timeout after it opened
C35_Witness ==
  /\ cbEv = "reject"
  /\ cb.state = "OPEN"
  /\ Len(cb.failures) = failureThreshold
  /\ now - cb.openedAt = TickMs
  /\ cb.lastFailure = cb.openedAt

\* C14: a CLOSED breaker has no open timestamp, no counted success and fewer
\* than failureThreshold failures in its history; an OPEN breaker has no
\* counted success and an open timestamp; the success counter is always below
\* successThreshold.
C14_StateInvariant ==
  /\ cb.state = "CLOSED" =>
       /\ cb.openedAt = Null
       /\ cb.successes = 0
       /\ Len(cb.failures) < failureThreshold
  /\ cb.state = "OPEN" => (cb.successes = 0 /\ cb.openedAt # Null)
  /\ cb.successes < successThreshold

\* C14 witness: a breaker that had opened and closed again holds one failure
\* less than the threshold
C14_Witness ==
  /\ cb.state = "CLOSED"
  /\ cbOpenSince # Null
  /\ Len(cb.failures) = failureThreshold - 1
  /\ cbEv = "failure"

(***************************************************************************)
(* URLs. A URL is a string; what new URL(url) makes of it is tabulated for *)
(* the URLs the model calls fetchResource with.                            *)
(***************************************************************************)
BadUrl == "not a url"
CssUrl == "https://a.com/x.css"
CssUrlTracked == "https://a.com/x.css?utm_source=n"
PngUrlRaw == "HTTPS://A.com/y.png"
PngUrl == "https://a.com/y.png"
FontUrl == "https://b.com/z"
ImportedCss == "https://a.com/i.css"
PortUrl == "http://a.com:8080/x.css"
DataUrl == "data:image/png;base64,AAAA"
BlobUrl == "blob:https://a.com/0e1f"
AnalyticsUrl == "https://cdn.analytics.io/pixel.png"
FetchUrls == {BadUrl, CssUrl, CssUrlTracked, PngUrlRaw}

\* new URL(url) does not throw
IsValidUrl(url) == url # BadUrl

\* new URL(url).href
Href(url) == IF url = PngUrlRaw THEN PngUrl ELSE url

\* new URL(url).hostname
getDomainMutHost(url) ==
  CASE url \in {CssUrl, CssUrlTracked, PngUrl, PngUrlRaw, ImportedCss} -> "a.com"
    [] url = PortUrl -> "a.com:8080"
    [] url = FontUrl -> "b.com"
    [] OTHER -> "unknown"
getDomain(url) ==
  CASE url \in {CssUrl, CssUrlTracked, PngUrl, PngUrlRaw, ImportedCss, PortUrl} -> "a.com"
    [] url = FontUrl -> "b.com"
    [] OTHER -> "unknown"

\* normalizeUrl of the resource cache: the href without the tracking parameters
normalizeUrl(url) ==
  IF url = CssUrlTracked THEN CssUrl ELSE url

\* the extension's entry in MIME_TYPES, or application/octet-stream
inferMimeType(url) ==
  CASE url \in {CssUrl, CssUrlTracked, ImportedCss} -> "text/css"
    [] url = PngUrl -> "image/png"
    [] OTHER -> "application/octet-stream"

getResourceType(url, mimeType) ==
  CASE mimeType = "text/css" -> "css"
    [] mimeType = "application/javascript" -> "js"
    [] mimeType = "image/png" -> "image"
    [] mimeType = "font/woff2" -> "font"
    [] OTHER -> "other"

\* the content-type header the server of the URL sends ("" when it sends none)
ContentTypeHeader(url) ==
  CASE url \in {CssUrl, CssUrlTracked, ImportedCss} -> "text/css; charset=utf-8"
    [] url = FontUrl -> "font/woff2"
    [] OTHER -> ""

\* contentType.split(';')[0].trim()
MimeOf(contentType) ==
  IF contentType = "text/css; charset=utf-8" THEN "text/css" ELSE contentType

(***************************************************************************)
(* Result (types.js: Ok, Err) and Resource                                 *)
(***************************************************************************)
NoValue == [url |-> "", type |-> "", mimeType |-> "", size |-> 0]
Ok(value) == [ok |-> TRUE, errorCode |-> "", value |-> value]
Err(errorCode) == [ok |-> FALSE, errorCode |-> errorCode, value |-> NoValue]
NoResult == [ok |-> FALSE, errorCode |-> "pending", value |-> NoValue]

(***************************************************************************)
(* Resource cache: createResourceCache(200, 10 * 60 * 1000)                *)
(***************************************************************************)
maxSize == 200
ttl == 600000

CacheIndex(c, key) ==
  IF \E i \in 1..Len(c) : c[i].key = key
  THEN CHOOSE i \in 1..Len(c) : c[i].key = key
  ELSE 0

RemoveAt(seq, i) == SubSeq(seq, 1, i - 1) \o SubSeq(seq, i + 1, Len(seq))

\* how often x occurs in seq
Count(seq, x) == Cardinality({i \in 1..Len(seq) : seq[i] = x})

\* get(url): found and value
cacheGetMutNever(c, url, t) == [found |-> FALSE, value |-> NoValue]
cacheGetMutExpireEarly(c, url, t) ==
  IF \E i \in 1..Len(c) : c[i].key = normalizeUrl(url) /\ t - c[i].timestamp < ttl
  THEN [found |-> TRUE,
        value |-> c[CHOOSE i \in 1..Len(c) : c[i].key = normalizeUrl(url)].value]
  ELSE [found |-> FALSE, value |-> NoValue]
cacheGet(c, url, t) ==
  LET i == CacheIndex(c, normalizeUrl(url))
  IN IF i # 0 /\ t - c[i].timestamp <= ttl
     THEN [found |-> TRUE, value |-> c[i].value]
     ELSE [found |-> FALSE, value |-> NoValue]

\* get(url): the cache after it (an expired entry is deleted)
cacheAfterGetMutKeep(c, url, t) == c
cacheAfterGet(c, url, t) ==
  LET i == CacheIndex(c, normalizeUrl(url))
  IN IF i # 0 /\ ~(t - c[i].timestamp <= ttl) THEN RemoveAt(c, i) ELSE c

\* the first entry with the smallest timestamp (a stable sort's first element)
OldestIndexMutFirst(c) == 1
OldestIndex(c) ==
  CHOOSE i \in 1..Len(c) :
    /\ \A j \in 1..Len(c) : c[i].timestamp <= c[j].timestamp
    /\ \A j \in 1..(i - 1) : c[j].timestamp > c[i].timestamp

\* set(url, value) of a cache created with maxSize: cap
cacheSetOf(c, url, value, t, cap) ==
  LET key == normalizeUrl(url)
      d == IF Len(c) >= cap THEN RemoveAt(c, OldestIndex(c)) ELSE c
      i == CacheIndex(d, key)
      e == [key |-> key, value |-> value, timestamp |-> t]
  IN IF i # 0 THEN [d EXCEPT ![i] = e] ELSE Append(d, e)

\* set(url, value)
cacheSet(c, url, value, t) == cacheSetOf(c, url, value, t, maxSize)

(***************************************************************************)
(* Dead letter queue: getDLQ() = createDeadLetterQueue({maxEntries: 500,   *)
(* retentionPeriod: 7 days})                                               *)
(***************************************************************************)
maxEntries == 500
retentionPeriod == 604800000

cleanExpired(entries, t) ==
  SelectSeq(entries, LAMBDA e : e.timestamp > t - retentionPeriod)

\* entries.sort((a, b) => b.timestamp - a.timestamp): stable, newest first
RECURSIVE SortNewestFirst(_)
SortNewestFirst(entries) ==
  IF Len(entries) <= 1 THEN entries
  ELSE LET m == CHOOSE i \in 1..Len(entries) :
                  /\ \A j \in 1..Len(entries) : entries[i].timestamp >= entries[j].timestamp
                  /\ \A j \in 1..(i - 1) : entries[j].timestamp < entries[i].timestamp
       IN <<entries[m]>> \o SortNewestFirst(RemoveAt(entries, m))

\* enforceMaxSize of a queue created with maxEntries: cap
enforceMaxSizeMutNoSort(entries, cap) ==
  IF Len(entries) > cap THEN SubSeq(entries, 1, cap) ELSE entries

enforceMaxSizeOf(entries, cap) ==
  IF Len(entries) > cap
  THEN SubSeq(SortNewestFirst(entries), 1, cap)
  ELSE entries

enforceMaxSize(entries) == enforceMaxSizeOf(entries, maxEntries)

\* the entry enqueue builds and returns (its id is unique: the payload tells entries apart)
DeadLetterEntry(url, errorCode, circuitState, t) ==
  [type |-> "RESOURCE_FETCH_FAILURE", url |-> url,
   errorCode |-> IF errorCode = "" THEN "UNKNOWN_ERROR" ELSE errorCode,
   source |-> "fetchResource", circuitState |-> circuitState,
   timestamp |-> t, retryCount |-> 0]

\* enqueue({type, payload, error, errorCode, source, metadata}): the entries after it
enqueue(entries, url, errorCode, circuitState, t) ==
  enforceMaxSize(cleanExpired(Append(entries, DeadLetterEntry(url, errorCode, circuitState, t)), t))

\* getEntries(filter) once load() has returned. A criterion that is not given is
\* "" (since: 0): if (filter.type) ..., if (filter.since) ...
MatchesFilterMutAnySource(e, filter) ==
  /\ filter.type # "" => e.type = filter.type
  /\ filter.errorCode # "" => e.errorCode = filter.errorCode
  /\ filter.since # 0 => e.timestamp >= filter.since

MatchesFilter(e, filter) ==
  /\ filter.type # "" => e.type = filter.type
  /\ filter.errorCode # "" => e.errorCode = filter.errorCode
  /\ filter.source # "" => e.source = filter.source
  /\ filter.since # 0 => e.timestamp >= filter.since

getEntries(entries, filter, t) ==
  SortNewestFirst(SelectSeq(cleanExpired(entries, t), LAMBDA e : MatchesFilter(e, filter)))

\* getStats() once load() has returned: total and byType (0 for a type with no entry)
getStats(entries, t) ==
  LET kept == cleanExpired(entries, t)
  IN [total |-> Len(kept),
      byType |-> [type \in {kept[i].type : i \in 1..Len(kept)} |->
                    Cardinality({i \in 1..Len(kept) : kept[i].type = type})]]

\* getEntry(id): entries.find(e => e.id === id) || null, the payload standing for
\* the id; found tells the entry from null
getEntry(entries, id) ==
  IF \E i \in 1..Len(entries) : entries[i].url = id
  THEN [found |-> TRUE,
        entry |-> entries[CHOOSE i \in 1..Len(entries) :
                            entries[i].url = id /\ \A j \in 1..(i - 1) : entries[j].url # id]]
  ELSE [found |-> FALSE]

\* whether enqueue throws when chrome.storage rejects: load and persist catch it
enqueueThrows(storageFails) == FALSE

(***************************************************************************)
(* fetchResource (part_005:123-218). A call runs in a slot; its steps are  *)
(* the stretches of code between two awaits.                               *)
(*   pc: idle -> net (fetch() outstanding) -> body (reading the body)      *)
(*       -> settled (breaker.execute returned) -> done (returned) | threw  *)
(***************************************************************************)
resourceTimeout == 10000
maxResourceSize == 5242880

\* the instants of SpecFetch's clock: around the breaker's timeout and the cache's ttl
FetchTimes == {0, timeout, ttl, ttl + timeout}

IdleTask ==
  [pc |-> "idle", url |-> "", startAt |-> Null, mimeType |-> "", size |-> 0,
   result |-> NoResult, requested |-> FALSE, after |-> {}, evicted |-> FALSE]

\* circuitBreakerRegistry.getBreaker(url): the breaker, created when missing
HasBreaker(domain) == \E i \in 1..Len(breakers) : breakers[i].domain = domain
BreakerIndex(domain) == CHOOSE i \in 1..Len(breakers) : breakers[i].domain = domain
getBreaker(url) ==
  IF HasBreaker(getDomain(url))
  THEN breakers[BreakerIndex(getDomain(url))].breaker
  ELSE createCircuitBreaker

\* the registry with the breaker of url's hostname replaced by b
WithBreaker(url, b) ==
  IF HasBreaker(getDomain(url))
  THEN [breakers EXCEPT ![BreakerIndex(getDomain(url))].breaker = b]
  ELSE Append(breakers, [domain |-> getDomain(url), breaker |-> b])

\* fetchResource(url, config) up to its first await
FrCall(s, url) ==
  /\ tasks[s].pc = "idle"
  /\ IF s = 1 THEN TRUE ELSE tasks[s - 1].pc # "idle"
  /\ LET t == [IdleTask EXCEPT !.url = url, !.startAt = now,
                 !.after = {r \in Slots : tasks[r].pc = "done" /\ tasks[r].url = url},
                 !.evicted = IF IsValidUrl(url)
                             THEN cacheAfterGet(cache, Href(url), now) # cache
                             ELSE FALSE]
         normalizedUrl == Href(url)
         cached == cacheGet(cache, normalizedUrl, now)
         breaker == getBreaker(normalizedUrl)
     IN IF ~IsValidUrl(url)
        THEN /\ tasks' = [tasks EXCEPT ![s] =
                  [t EXCEPT !.pc = "done", !.result = Err("VALIDATION_ERROR")]]
             /\ UNCHANGED <<cache, breakers>>
        ELSE IF cached.found
        THEN /\ tasks' = [tasks EXCEPT ![s] =
                  [t EXCEPT !.pc = "done", !.result = Ok(cached.value)]]
             /\ cache' = cacheAfterGet(cache, normalizedUrl, now)
             /\ UNCHANGED breakers
        ELSE /\ cache' = cacheAfterGet(cache, normalizedUrl, now)
             /\ breakers' = WithBreaker(normalizedUrl, shouldAttemptState(breaker, now))
             /\ IF shouldAttempt(breaker, now)
                THEN tasks' = [tasks EXCEPT ![s] =
                       [t EXCEPT !.pc = "net", !.requested = TRUE]]
                ELSE tasks' = [tasks EXCEPT ![s] =
                       [t EXCEPT !.pc = "settled", !.result = Err("CIRCUIT_OPEN")]]
  /\ UNCHANGED <<now, dlq, nonFetchVars>>

\* the callback given to execute threw: recordFailure, Err(NETWORK_FAILURE)
ThrowsMutCaches(s) ==
  /\ breakers' = WithBreaker(Href(tasks[s].url),
                    recordFailure(getBreaker(Href(tasks[s].url)), now))
  /\ tasks' = [tasks EXCEPT ![s].pc = "settled", ![s].result = Err("NETWORK_FAILURE")]
  /\ cache' = cacheSet(cache, Href(tasks[s].url),
                       [url |-> Href(tasks[s].url), type |-> "", mimeType |-> "",
                        size |-> 0], now)
Throws(s) ==
  /\ breakers' = WithBreaker(Href(tasks[s].url),
                    recordFailure(getBreaker(Href(tasks[s].url)), now))
  /\ tasks' = [tasks EXCEPT ![s].pc = "settled", ![s].result = Err("NETWORK_FAILURE")]
  /\ UNCHANGED cache

ThrowsAfterBody(s, byteLength) ==
  /\ breakers' = WithBreaker(Href(tasks[s].url),
                    recordFailure(getBreaker(Href(tasks[s].url)), now))
  /\ tasks' = [tasks EXCEPT ![s].pc = "settled", ![s].size = byteLength,
                            ![s].result = Err("NETWORK_FAILURE")]
  /\ UNCHANGED cache

\* fetch() rejected (network failure, CORS)
FrNetworkError(s) ==
  /\ tasks[s].pc = "net"
  /\ now - tasks[s].startAt < resourceTimeout
  /\ Throws(s)
  /\ UNCHANGED <<now, dlq, nonFetchVars>>

\* withTimeout's timer fired before fetch() settled
FrTimeout(s) ==
  /\ tasks[s].pc = "net"
  /\ now - tasks[s].startAt >= resourceTimeout
  /\ Throws(s)
  /\ UNCHANGED <<now, dlq, nonFetchVars>>

\* fetch() resolved with a response: status, content-type, content-length
FrResponse(s, responseOk, contentLength) ==
  /\ tasks[s].pc = "net"
  /\ now - tasks[s].startAt < resourceTimeout
  /\ LET normalizedUrl == Href(tasks[s].url)
         header == ContentTypeHeader(normalizedUrl)
         contentType == IF header # "" THEN header ELSE inferMimeType(normalizedUrl)
     IN IF ~responseOk
        THEN Throws(s)
        ELSE IF contentLength # Null /\ contentLength > maxResourceSize
        THEN Throws(s)
        ELSE /\ tasks' = [tasks EXCEPT ![s].pc = "body",
                                       ![s].mimeType = MimeOf(contentType)]
             /\ UNCHANGED <<cache, breakers>>
  /\ UNCHANGED <<now, dlq, nonFetchVars>>

\* response.text() / response.arrayBuffer() resolved with byteLength bytes
FrBody(s, byteLength) ==
  /\ tasks[s].pc = "body"
  /\ LET normalizedUrl == Href(tasks[s].url)
         mimeType == tasks[s].mimeType
         resourceType == getResourceType(normalizedUrl, mimeType)
         resource == [url |-> normalizedUrl, type |-> resourceType,
                      mimeType |-> mimeType, size |-> byteLength]
     IN IF resourceType \notin {"css", "js"} /\ byteLength > maxResourceSize
        THEN ThrowsAfterBody(s, byteLength)
        ELSE /\ cache' = cacheSet(cache, normalizedUrl, resource, now)
             /\ breakers' = WithBreaker(normalizedUrl,
                               recordSuccess(getBreaker(normalizedUrl), now))
             /\ tasks' = [tasks EXCEPT ![s].pc = "settled", ![s].size = byteLength,
                                       ![s].result = Ok(resource)]
  /\ UNCHANGED <<now, dlq, nonFetchVars>>

\* after await breaker.execute(...): a failure goes to the DLQ, the result is returned
FrFinish(s, storageFails) ==
  /\ tasks[s].pc = "settled"
  /\ LET normalizedUrl == Href(tasks[s].url)
         result == tasks[s].result
     IN IF ~result.ok
        THEN /\ dlq' = enqueue(dlq, normalizedUrl, result.errorCode,
                               getBreaker(normalizedUrl).state, now)
             /\ tasks' = [tasks EXCEPT ![s].pc =
                            IF enqueueThrows(storageFails) THEN "threw" ELSE "done"]
        ELSE /\ tasks' = [tasks EXCEPT ![s].pc = "done"]
             /\ UNCHANGED dlq
  /\ UNCHANGED <<now, cache, breakers, nonFetchVars>>

FetchTick(t) ==
  /\ t > now
  /\ now' = t
  /\ UNCHANGED <<fetchVars, nonFetchVars>>

\* States the fetcher module can be in when the calls of SpecFetch begin: fresh,
\* or with a.com's breaker opened by failureThreshold failures at time 0, or
\* with the stylesheet cached at time 0 (the DLQ emptied by clear()).
TrippedBreaker ==
  [state |-> "OPEN", failures |-> [i \in 1..failureThreshold |-> 0], successes |-> 0,
   lastFailure |-> 0, openedAt |-> 0]
CachedCss ==
  [key |-> CssUrl, timestamp |-> 0,
   value |-> [url |-> CssUrl, type |-> "css", mimeType |-> "text/css",
              size |-> maxResourceSize]]

InitFetch ==
  /\ now = 0
  /\ CbInit
  /\ cache \in {<<>>, <<CachedCss>>}
  /\ breakers \in {<<>>, <<[domain |-> "a.com", breaker |-> TrippedBreaker]>>}
  /\ dlq = <<>>
  /\ tasks = [s \in Slots |-> IdleTask]
  /\ ManyInit
  /\ ProcessInit
  /\ RegInit
  /\ FnIdle
  /\ DqIdle
  /\ CacheIdle

NextFetch ==
  \/ \E s \in Slots, url \in FetchUrls : FrCall(s, url)
  \/ \E s \in Slots : FrNetworkError(s)
  \/ \E s \in Slots : FrTimeout(s)
  \/ \E s \in Slots, responseOk \in BOOLEAN,
        contentLength \in {Null, maxResourceSize, maxResourceSize + 1} :
       FrResponse(s, responseOk, contentLength)
  \/ \E s \in Slots, byteLength \in {maxResourceSize, maxResourceSize + 1} :
       FrBody(s, byteLength)
  \/ \E s \in Slots, storageFails \in BOOLEAN : FrFinish(s, storageFails)
  \/ \E t \in FetchTimes : FetchTick(t)

SpecFetch == InitFetch /\ [][NextFetch]_vars

\* ---- what SpecFetch's claims speak of ----
CacheKey(s) == normalizeUrl(Href(tasks[s].url))
Outstanding(s) == tasks[s].pc \in {"net", "body"}
Returned(s) == tasks[s].pc = "done"
\* call s had returned when call t, for the same URL, was made less than ttl later
OneAfterTheOther(s, t) ==
  /\ s \in tasks[t].after
  /\ tasks[t].startAt - tasks[s].startAt < ttl

\* C2: concurrent fetches of one not yet cached URL share a single network
\* request: never are two requests outstanding for the same cache key.
C2_SingleFlight ==
  \A s, t \in Slots :
    (s # t /\ Outstanding(s) /\ Outstanding(t)) => CacheKey(s) # CacheKey(t)

\* C8: a fetchResource call never throws, and every call that returned a
\* failure has an entry in the dead letter queue with its URL, its error code
\* and a circuit state.
C8_FailureRecorded ==
  \A s \in Slots :
    /\ tasks[s].pc # "threw"
    /\ (Returned(s) /\ ~tasks[s].result.ok) =>
         \E i \in 1..Len(dlq) :
           /\ dlq[i].url = Href(tasks[s].url)
           /\ dlq[i].errorCode = tasks[s].result.errorCode
           /\ dlq[i].circuitState \in {"CLOSED", "OPEN", "HALF_OPEN"}

\* C22: a fetch the per-resource timeout cuts short ends as a failure with the
\* error code FETCH_TIMEOUT and adds one failure to the tally of the origin's breaker
C22_TimeoutCode ==
  [][\A s \in Slots :
       (tasks[s].pc = "net" /\ tasks'[s].pc = "settled"
          /\ now - tasks[s].startAt >= resourceTimeout) =>
         /\ ~tasks'[s].result.ok
         /\ tasks'[s].result.errorCode = "FETCH_TIMEOUT"
         /\ breakers' = WithBreaker(Href(tasks[s].url),
                           recordFailure(getBreaker(Href(tasks[s].url)), now))]_vars

\* C9: a call that downloaded more than maxResourceSize bytes fails with
\* RESOURCE_TOO_LARGE, whatever the resource's type and declared length.
C9_TooLarge ==
  \A s \in Slots :
    (tasks[s].pc \in {"settled", "done"} /\ tasks[s].size > maxResourceSize) =>
      (~tasks[s].result.ok /\ tasks[s].result.errorCode = "RESOURCE_TOO_LARGE")

Unexpired(url) ==
  \E i \in 1..Len(cache) :
    cache[i].key = normalizeUrl(Href(url)) /\ now - cache[i].timestamp <= ttl
UnexpiredValue(url) ==
  cache[CHOOSE i \in 1..Len(cache) : cache[i].key = normalizeUrl(Href(url))].value

\* C11: a fetchResource call for a URL with an unexpired cache entry returns
\* Ok with the cached resource at once, issues no network request and leaves
\* the breaker registry as it is, whatever the state of the origin's breaker.
C11_HitBypassesBreaker ==
  [][\A s \in Slots :
       (tasks[s].pc = "idle" /\ tasks'[s].pc # "idle" /\ Unexpired(tasks'[s].url)) =>
         /\ tasks'[s].pc = "done"
         /\ tasks'[s].result = Ok(UnexpiredValue(tasks'[s].url))
         /\ ~tasks'[s].requested
         /\ breakers' = breakers
    ]_vars

\* C11 witness: a call was answered from the cache while the origin's breaker
\* is OPEN and would have rejected it
C11_Witness ==
  \E s \in Slots :
    /\ Returned(s) /\ tasks[s].result.ok /\ ~tasks[s].requested
    /\ HasBreaker(getDomain(Href(tasks[s].url)))
    /\ getBreaker(Href(tasks[s].url)).state = "OPEN"
    /\ ~shouldAttempt(getBreaker(Href(tasks[s].url)), now)

\* C36: a call rejected because the downloaded body is larger than
\* maxResourceSize adds nothing to the failure tally of the origin's breaker
\* and leaves the breaker's state as it was.
C36_SizeRejectionNotTallied ==
  [][\A s \in Slots :
       (tasks[s].pc = "body" /\ tasks'[s].pc = "settled"
          /\ tasks'[s].size > maxResourceSize /\ ~tasks'[s].result.ok) =>
         /\ getBreaker(Href(tasks[s].url)).failures
              = getBreaker(Href(tasks[s].url))'.failures
         /\ getBreaker(Href(tasks[s].url)).state
              = getBreaker(Href(tasks[s].url))'.state]_vars

\* the entry of url's key when the cache holds one older than ttl, else 0
ExpiredIndex(url) ==
  IF \E i \in 1..Len(cache) :
       cache[i].key = normalizeUrl(Href(url)) /\ now - cache[i].timestamp > ttl
  THEN CHOOSE i \in 1..Len(cache) : cache[i].key = normalizeUrl(Href(url))
  ELSE 0

\* C37 as stated: when a fetchResource call has returned a failure the cache
\* holds what it held when the call was made: the call removed no entry (and
\* added none).
C37_FailureLeavesCache ==
  \A s \in Slots : (Returned(s) /\ ~tasks[s].result.ok) => ~tasks[s].evicted

\* C37 amended: a step of a fetchResource call that does not make the call Ok
\* adds no entry to the cache and changes none; the one change it can make is
\* that the call's first step deletes the entry of the call's own URL when
\* that entry is older than ttl.
C37_FailureCachesNothing ==
  [][\A s \in Slots :
       (tasks'[s] # tasks[s] /\ ~tasks'[s].result.ok) =>
         cache' = IF tasks[s].pc = "idle" /\ IsValidUrl(tasks'[s].url)
                      /\ ExpiredIndex(tasks'[s].url) # 0
                   THEN RemoveAt(cache, ExpiredIndex(tasks'[s].url))
                   ELSE cache]_vars

\* C37 witness: a call that found an expired entry of its URL went to the
\* network and returned a failure, and the cache holds no entry for the URL
C37_Witness ==
  \E s \in Slots :
    /\ Returned(s) /\ ~tasks[s].result.ok
    /\ tasks[s].evicted /\ tasks[s].requested
    /\ \A i \in 1..Len(cache) : cache[i].key # CacheKey(s)

(***************************************************************************)
(* The breaker registry (circuit-breaker.js:188-242) used directly, for    *)
(* URLs of several hostnames: getBreaker, execute on the breaker it        *)
(* returns, resetDomain and resetAll.                                      *)
(***************************************************************************)
RegUrls == {CssUrl, PortUrl, FontUrl, BadUrl}

\* how many execute calls are made on the registry's breakers
MaxExecutes == 3
RegMaxTime == timeout

\* the operations execute is awaiting on the breaker of a hostname
Pending(domain) == IF domain \in DOMAIN regPending THEN regPending[domain] ELSE 0
WithPending(domain, n) ==
  [d \in DOMAIN regPending \cup {domain} |-> IF d = domain THEN n ELSE regPending[d]]

\* registry.getBreaker(url)
RegGetBreaker(url) ==
  /\ breakers' = WithBreaker(url, getBreaker(url))
  /\ regEv' = [regEv EXCEPT !.op = "getBreaker", !.url = url]
  /\ UNCHANGED <<now, regPending, nonRegVars>>

\* registry.getBreaker(url).execute(fn), up to its await or its rejection
RegExecute(url) ==
  /\ regEv.n < MaxExecutes
  /\ LET breaker == getBreaker(url)
     IN /\ breakers' = WithBreaker(url, shouldAttemptState(breaker, now))
        /\ IF shouldAttempt(breaker, now)
           THEN /\ regPending' = WithPending(getDomain(url), Pending(getDomain(url)) + 1)
                /\ regEv' = [op |-> "execute", url |-> url, n |-> regEv.n + 1]
           ELSE /\ regEv' = [op |-> "rejected", url |-> url, n |-> regEv.n + 1]
                /\ UNCHANGED regPending
  /\ UNCHANGED <<now, nonRegVars>>

\* the fn of an execute on url's breaker resolved: recordSuccess
RegSucceeds(url) ==
  /\ Pending(getDomain(url)) > 0
  /\ breakers' = WithBreaker(url, recordSuccess(getBreaker(url), now))
  /\ regPending' = WithPending(getDomain(url), Pending(getDomain(url)) - 1)
  /\ regEv' = [regEv EXCEPT !.op = "success", !.url = url]
  /\ UNCHANGED <<now, nonRegVars>>

\* the fn of an execute on url's breaker threw: recordFailure
RegFails(url) ==
  /\ Pending(getDomain(url)) > 0
  /\ breakers' = WithBreaker(url, recordFailure(getBreaker(url), now))
  /\ regPending' = WithPending(getDomain(url), Pending(getDomain(url)) - 1)
  /\ regEv' = [regEv EXCEPT !.op = "failure", !.url = url]
  /\ UNCHANGED <<now, nonRegVars>>

\* registry.resetDomain(url)
RegResetDomain(url) ==
  /\ breakers' = IF HasBreaker(getDomain(url))
                 THEN WithBreaker(url, reset(getBreaker(url), now))
                 ELSE breakers
  /\ regEv' = [regEv EXCEPT !.op = "resetDomain", !.url = url]
  /\ UNCHANGED <<now, regPending, nonRegVars>>

\* registry.resetAll()
RegResetAll ==
  /\ breakers' = [i \in 1..Len(breakers) |->
                    [breakers[i] EXCEPT !.breaker = reset(breakers[i].breaker, now)]]
  /\ regEv' = [regEv EXCEPT !.op = "resetAll", !.url = ""]
  /\ UNCHANGED <<now, regPending, nonRegVars>>

RegTick ==
  /\ now < RegMaxTime
  /\ now' = now + timeout
  /\ UNCHANGED <<breakers, regVars, nonRegVars>>

InitRegistry ==
  /\ now = 0
  /\ CbInit
  /\ FetchInit
  /\ ManyInit
  /\ ProcessInit
  /\ RegInit
  /\ FnIdle
  /\ DqIdle
  /\ CacheIdle

NextRegistry ==
  \/ \E url \in RegUrls : RegGetBreaker(url)
  \/ \E url \in RegUrls : RegExecute(url)
  \/ \E url \in RegUrls : RegSucceeds(url)
  \/ \E url \in RegUrls : RegFails(url)
  \/ \E url \in RegUrls : RegResetDomain(url)
  \/ RegResetAll
  \/ RegTick

SpecRegistry == InitRegistry /\ [][NextRegistry]_vars

\* what new URL(url) gives for the valid URLs of RegUrls
UrlParts(url) ==
  CASE url = CssUrl -> [protocol |-> "https:", hostname |-> "a.com", port |-> ""]
    [] url = PortUrl -> [protocol |-> "http:", hostname |-> "a.com", port |-> "8080"]
    [] url = FontUrl -> [protocol |-> "https:", hostname |-> "b.com", port |-> ""]
ValidRegUrls == {url \in RegUrls : IsValidUrl(url)}

\* the registry entries getBreaker(url) returns out of registry (none: {})
EntriesFor(registry, url) ==
  {i \in 1..Len(registry) : registry[i].domain = getDomain(url)}

\* C13: the registry holds one breaker per hostname: two URLs get the same
\* breaker exactly when their hostnames are equal, whatever their scheme and
\* port; a breaker is created, CLOSED and empty, by the first getBreaker for
\* its hostname; and a success or failure executed through the breaker of one
\* hostname leaves the breaker of every other hostname as it is.
C13_BreakerPerHostname ==
  /\ [](\A u, v \in ValidRegUrls :
          /\ Cardinality(EntriesFor(breakers, u)) <= 1
          /\ (EntriesFor(breakers, u) # {} /\ EntriesFor(breakers, v) # {}) =>
               ((EntriesFor(breakers, u) = EntriesFor(breakers, v))
                  <=> (UrlParts(u).hostname = UrlParts(v).hostname)))
  /\ [][(regEv'.url \in ValidRegUrls
           /\ regEv'.op \in {"getBreaker", "execute", "rejected", "success", "failure"}) =>
          /\ EntriesFor(breakers', regEv'.url) # {}
          /\ EntriesFor(breakers, regEv'.url) = {} =>
               /\ Len(breakers') = Len(breakers) + 1
               /\ breakers'[Len(breakers')] =
                    [domain |-> UrlParts(regEv'.url).hostname,
                     breaker |-> createCircuitBreaker]
          /\ \A i \in 1..Len(breakers) :
               breakers[i].domain # UrlParts(regEv'.url).hostname =>
                 breakers'[i] = breakers[i]
       ]_vars

\* C13 witness: the breaker of a.com holds the failures recorded through it
\* and the breaker of b.com, used in between, the one recorded through it
C13_Witness ==
  /\ regEv.op = "failure" /\ regEv.url = PortUrl
  /\ Len(breakers) = 2
  /\ Len(getBreaker(CssUrl).failures) = 2
  /\ Len(getBreaker(FontUrl).failures) = 1
  /\ getBreaker(FontUrl).state = "CLOSED"

(***************************************************************************)
(* fetchResources (part_005:229-253) over mapAsync (utils:83-101).         *)
(* A URL is a number here; fetchResource is seen from outside: it is       *)
(* started, and later returns Ok or Err (it throws only if enqueue does).  *)
(*   mapPc: loop (the for loop runs) -> await (Promise.race) -> loop ...   *)
(*          -> all (Promise.all) -> returned | rejected                    *)
(***************************************************************************)
concurrency == 5

\* the inputs of SpecMany: every list of up to MaxShort URLs out of two, and
\* the lists of up to MaxUrls distinct URLs, alone or with two repeated
MaxShort == 3
MaxUrls == 7
ManyInputs ==
  UNION {[1..n -> 1..2] : n \in 0..MaxShort}
    \cup {[i \in 1..n |-> i] : n \in 1..MaxUrls}
    \cup {[i \in 1..n |-> i] \o <<n, 1>> : n \in 1..MaxUrls}

\* [...new Set(urls)]: the first occurrences, in order
uniqueUrlsMutKeepAll(list) == list
RECURSIVE uniqueUrls(_)
uniqueUrls(list) ==
  IF list = <<>> THEN <<>>
  ELSE LET front == uniqueUrls(SubSeq(list, 1, Len(list) - 1))
           x == list[Len(list)]
       IN IF \E i \in 1..Len(front) : front[i] = x THEN front ELSE Append(front, x)

\* if (executing.size >= concurrency)
MustAwaitMutOffByOne(set) == Cardinality(set) > concurrency
MustAwait(set) == Cardinality(set) >= concurrency

\* how a fetchResource call can end, seen from the mapper
FnOutcomes ==
  {"ok", "err"} \cup (IF \E storageFails \in BOOLEAN : enqueueThrows(storageFails)
                      THEN {"throw"} ELSE {})

\* one pass of the for loop's body: the promise of item i is created and added
\* to executing; fn itself runs in a later microtask
MapIterate ==
  /\ mapPc = "loop"
  /\ mapI <= Len(uniqueUrls(urls))
  /\ promises' = Append(promises, "created")
  /\ executing' = executing \cup {mapI}
  /\ mapI' = mapI + 1
  /\ mapPc' = IF MustAwait(executing') THEN "await" ELSE "loop"
  /\ UNCHANGED <<urls, results, completed, reports, reported, nonManyVars>>

\* the for loop ends: return Promise.all(results)
MapLoopEnd ==
  /\ mapPc = "loop"
  /\ mapI > Len(uniqueUrls(urls))
  /\ mapPc' = "all"
  /\ UNCHANGED <<urls, results, completed, executing, promises, mapI, reports, reported,
                 nonManyVars>>

\* the microtask of item i runs fn: fetchResource(url, config) is called
MapStart(i) ==
  /\ mapPc # "loop"
  /\ i \in 1..Len(promises)
  /\ promises[i] = "created"
  /\ promises' = [promises EXCEPT ![i] = "running"]
  /\ UNCHANGED <<urls, results, completed, executing, mapI, mapPc, reports, reported,
                 nonManyVars>>

\* Math.round(n / d) of a quotient that is not negative
Round(n, d) == (2 * n + d) \div (2 * d)

\* the object onProgress is called with
progressReportMutBeforeCount(done, total) ==
  [completed |-> done - 1, total |-> total, percent |-> Round((done - 1) * 100, total)]
progressReport(done, total) ==
  [completed |-> done, total |-> total, percent |-> Round(done * 100, total)]

\* fetchResource of item i ended: results.set(url, result), completed++,
\* onProgress is called, the promise settles, cleanup deletes it from executing,
\* a pending race settles
MapComplete(i, outcome) ==
  /\ i \in 1..Len(promises)
  /\ promises[i] = "running"
  /\ IF outcome = "throw"
     THEN /\ promises' = [promises EXCEPT ![i] = "rejected"]
          /\ mapPc' = IF mapPc = "await" THEN "rejected" ELSE mapPc
          /\ UNCHANGED <<results, completed, reports, reported>>
     ELSE /\ promises' = [promises EXCEPT ![i] = "fulfilled"]
          /\ mapPc' = IF mapPc = "await" THEN "loop" ELSE mapPc
          /\ LET url == uniqueUrls(urls)[i]
                 sets == IF url \in DOMAIN results THEN results[url].sets ELSE 0
                 calls == IF url \in DOMAIN reported THEN reported[url] ELSE 0
             IN /\ results' = (url :> [outcome |-> outcome, sets |-> sets + 1]) @@ results
                /\ reported' = (url :> calls + 1) @@ reported
          /\ completed' = completed + 1
          /\ reports' = Append(reports,
                               progressReport(completed + 1, Len(uniqueUrls(urls))))
  /\ executing' = executing \ {i}
  /\ UNCHANGED <<urls, mapI, nonManyVars>>

\* Promise.all(results) settles: fetchResources returns the Map, or throws
MapReturn ==
  /\ mapPc = "all"
  /\ IF \E i \in 1..Len(promises) : promises[i] = "rejected"
     THEN mapPc' = "rejected"
     ELSE /\ \A i \in 1..Len(promises) : promises[i] = "fulfilled"
          /\ mapPc' = "returned"
  /\ UNCHANGED <<urls, results, completed, executing, promises, mapI, reports, reported,
                 nonManyVars>>

InitMany ==
  /\ now = 0
  /\ CbInit
  /\ FetchInit
  /\ urls \in ManyInputs
  /\ results = <<>>
  /\ completed = 0
  /\ executing = {}
  /\ promises = <<>>
  /\ mapI = 1
  /\ mapPc = "loop"
  /\ reports = <<>>
  /\ reported = <<>>
  /\ ProcessInit
  /\ RegInit
  /\ FnIdle
  /\ DqIdle
  /\ CacheIdle

NextMany ==
  \/ MapIterate
  \/ MapLoopEnd
  \/ \E i \in 1..MaxUrls : MapStart(i)
  \/ \E i \in 1..MaxUrls, outcome \in FnOutcomes : MapComplete(i, outcome)
  \/ MapReturn

SpecMany == InitMany /\ [][NextMany]_vars

Range(seq) == {seq[i] : i \in 1..Len(seq)}
Running == {i \in 1..Len(promises) : promises[i] = "running"}

\* C1: fetchResources does not throw, and the Map it returns has exactly the
\* distinct input URLs as keys, each set once.
C1_OneOutcomePerUrl ==
  /\ mapPc # "rejected"
  /\ mapPc = "returned" =>
       /\ DOMAIN results = Range(urls)
       /\ \A url \in DOMAIN results :
            results[url].sets = 1 /\ results[url].outcome \in {"ok", "err"}

\* C1 witness: a list with a repeated URL was fetched, with a success and a failure
C1_Witness ==
  /\ mapPc = "returned"
  /\ Len(urls) > Cardinality(Range(urls))
  /\ \E u, v \in DOMAIN results :
       results[u].outcome = "ok" /\ results[v].outcome = "err"

\* C3: at most 5 fetchResource calls of one fetchResources call are started
\* and not yet completed.
C3_AtMostFiveRunning == Cardinality(Running) <= concurrency

\* C3 witness: 5 calls are running, one has completed and one is still to start
C3_Witness ==
  /\ Cardinality(Running) = concurrency
  /\ \E i \in 1..Len(promises) : promises[i] = "fulfilled"
  /\ mapI <= Len(uniqueUrls(urls))

\* C20: onProgress is called once for every distinct URL, when its fetch has
\* completed; the calls report completed = 1, 2, ... in that order and the number
\* of distinct URLs as total, and the last one reports 100 percent.
C20_ProgressCounts ==
  LET total == Cardinality(Range(urls))
  IN /\ \A url \in DOMAIN reported : reported[url] = 1 /\ url \in DOMAIN results
     /\ DOMAIN reported = DOMAIN results
     /\ Len(reports) = completed
     /\ \A k \in 1..Len(reports) : reports[k].completed = k /\ reports[k].total = total
     /\ mapPc = "returned" =>
          /\ DOMAIN reported = Range(urls)
          /\ Len(reports) = total
          /\ total > 0 => reports[total].percent = 100

\* C20 witness: a list of three distinct URLs, one of them repeated, was fetched;
\* the second call reported 67 percent
C20_Witness ==
  /\ mapPc = "returned"
  /\ Len(urls) > Cardinality(Range(urls))
  /\ Len(reports) = 3
  /\ reports[2] = [completed |-> 2, total |-> 3, percent |-> 67]
  /\ reports[3].percent = 100

(***************************************************************************)
(* The dead letter queue on its own (part_004:38-133): a queue created     *)
(* with maxEntries: DlqCap, as createDeadLetterQueue({maxEntries: 3}) of   *)
(* the tests, persisting to chrome.storage.local. enqueue calls overlap:   *)
(* each is cut at its awaits.                                              *)
(*   pc: idle -> loading (storage.get outstanding) -> loaded (load()       *)
(*       returned) -> persisting (storage.set outstanding) -> done         *)
(* chrome.storage serves its calls in the order they are issued: a get     *)
(* reads, and a set that succeeds writes, when it is issued; the promise   *)
(* settles in a later step.                                                *)
(***************************************************************************)
DlqCap == 2
MaxEnqueues == 3
MaxDlqTicks == 2

\* the clock starts one retention period after the epoch of the model
DlqStart == retentionPeriod

DlqCalls == 1..MaxEnqueues

NoEntry == DeadLetterEntry(0, "", "", Null)

IdleEnqueue ==
  [pc |-> "idle", readOk |-> TRUE, read |-> [has |-> FALSE, entries |-> <<>>],
   writeOk |-> TRUE, entry |-> NoEntry]

\* what an earlier session left under scrappy_dlq: nothing, or at most DlqCap entries
\* (a payload is a number here: the calls' are 1, 2, ..., the stored ones negative)
StoredEntry(id, t) == DeadLetterEntry(id, "NETWORK_FAILURE", "CLOSED", t)
StoredQueues ==
  {[has |-> FALSE, entries |-> <<>>],
   [has |-> TRUE, entries |-> <<StoredEntry(-1, 0)>>],
   [has |-> TRUE, entries |-> <<StoredEntry(-2, DlqStart - 1)>>],
   [has |-> TRUE, entries |-> <<StoredEntry(-2, DlqStart - 1),
                               StoredEntry(-3, DlqStart + 1)>>]}

\* enqueue(...) up to the await of load(): load returns at once, or awaits storage.get
DqEnqueue(c, readOk) ==
  /\ dqCalls[c].pc = "idle"
  /\ IF c = 1 THEN TRUE ELSE dqCalls[c - 1].pc # "idle"
  /\ IF dqInitialized
     THEN dqCalls' = [dqCalls EXCEPT ![c].pc = "loaded"]
     ELSE dqCalls' = [dqCalls EXCEPT ![c].pc = "loading", ![c].readOk = readOk,
                                     ![c].read = dqStorage]
  /\ UNCHANGED <<now, dlq, dqInitialized, dqStorage, nonDqVars>>

\* storage.get settled: the rest of load()
DqLoaded(c) ==
  /\ dqCalls[c].pc = "loading"
  /\ IF dqCalls[c].readOk /\ dqCalls[c].read.has
     THEN dlq' = cleanExpired(dqCalls[c].read.entries, now)
     ELSE dlq' = dlq
  /\ dqInitialized' = TRUE
  /\ dqCalls' = [dqCalls EXCEPT ![c].pc = "loaded"]
  /\ UNCHANGED <<now, dqStorage, nonDqVars>>

\* enqueue from the return of load() to the await of persist()
DqPush(c, writeOk) ==
  /\ dqCalls[c].pc = "loaded"
  /\ LET entry == DeadLetterEntry(c, "", "", now)
         entries == enforceMaxSizeOf(cleanExpired(Append(dlq, entry), now), DlqCap)
     IN /\ dlq' = entries
        /\ dqStorage' = IF writeOk THEN [has |-> TRUE, entries |-> entries] ELSE dqStorage
        /\ dqCalls' = [dqCalls EXCEPT ![c].pc = "persisting", ![c].writeOk = writeOk,
                                        ![c].entry = entry]
  /\ UNCHANGED <<now, dqInitialized, nonDqVars>>

\* storage.set settled (a rejection is caught): onEntry(entry), return entry
DqReturn(c) ==
  /\ dqCalls[c].pc = "persisting"
  /\ dqCalls' = [dqCalls EXCEPT ![c].pc = "done"]
  /\ UNCHANGED <<now, dlq, dqInitialized, dqStorage, nonDqVars>>

\* a millisecond passes
DqTick ==
  /\ now < DlqStart + MaxDlqTicks
  /\ now' = now + 1
  /\ UNCHANGED <<dlq, dqVars, nonDqVars>>

InitDlq ==
  /\ now = DlqStart
  /\ CbInit
  /\ FetchInit
  /\ ManyInit
  /\ ProcessInit
  /\ RegInit
  /\ FnIdle
  /\ CacheIdle
  /\ dqInitialized = FALSE
  /\ dqStorage \in StoredQueues
  /\ dqCalls = [c \in DlqCalls |-> IdleEnqueue]

NextDlq ==
  \/ \E c \in DlqCalls, readOk \in BOOLEAN : DqEnqueue(c, readOk)
  \/ \E c \in DlqCalls : DqLoaded(c)
  \/ \E c \in DlqCalls, writeOk \in BOOLEAN : DqPush(c, writeOk)
  \/ \E c \in DlqCalls : DqReturn(c)
  \/ DqTick

SpecDlq == InitDlq /\ [][NextDlq]_vars

\* ---- what SpecDlq's claims speak of ----
\* the step in which call c pushes its entry and enforces the cap
Pushes(c) == dqCalls[c].pc = "loaded" /\ dqCalls'[c].pc = "persisting"

\* the step in which call c returns
Returns(c) == dqCalls[c].pc = "persisting" /\ dqCalls'[c].pc = "done"

\* the entries call c's enforceMaxSize dropped: unexpired, and no longer held
Discarded(c) ==
  {e \in Range(Append(dlq, dqCalls'[c].entry)) :
     e.timestamp > now - retentionPeriod /\ e \notin Range(dlq')}

\* C15: after every enqueue the queue holds at most its cap of entries, and every
\* entry discarded to meet the cap has a timestamp no later than every kept entry
C15_CapKeepsNewest ==
  /\ [](dqCalls # <<>> => Len(dlq) <= DlqCap)
  /\ [][\A c \in DOMAIN dqCalls : Pushes(c) =>
          \A d \in Discarded(c) : \A k \in Range(dlq') : d.timestamp <= k.timestamp]_vars

C15_Witness ==
  /\ dqCalls # <<>>
  /\ \A c \in DlqCalls : dqCalls[c].pc = "done"
  /\ Len(dlq) = DlqCap
  /\ \A i \in 1..Len(dlq) : dlq[i].timestamp > DlqStart
  /\ dqCalls[1].entry.timestamp = DlqStart
  /\ dqCalls[1].entry \notin Range(dlq)

\* C16: an enqueue during which storage.get or storage.set rejected returns, and
\* when it returns the entry it returns is in the in-memory queue
C16_KeptWhenStorageFails ==
  [][\A c \in DOMAIN dqCalls :
        (Returns(c) /\ (~dqCalls[c].readOk \/ ~dqCalls[c].writeOk))
           => dqCalls[c].entry \in Range(dlq')]_vars

\* C30: when an enqueue returns, getEntry with the id of the entry it returns finds
\* that entry
C30_StoredOnReturn ==
  [][\A c \in DOMAIN dqCalls :
        Returns(c) =>
          getEntry(dlq', dqCalls[c].entry.url) = [found |-> TRUE, entry |-> dqCalls[c].entry]]_vars

\* the enqueue calls that were made
Enqueued == {c \in DOMAIN dqCalls : dqCalls[c].pc # "idle"}

\* C31: when every enqueue call made has returned, and the entries stored before
\* (those unexpired, as the first call read them) and the ones enqueued are no
\* more than the cap, every entry enqueued is in the queue
C31_NoLostAppend ==
  ( /\ Enqueued # {}
    /\ \A c \in Enqueued : dqCalls[c].pc = "done"
    /\ Cardinality(Enqueued) + Len(cleanExpired(dqCalls[1].read.entries, DlqStart)) <= DlqCap )
  => \A c \in Enqueued : dqCalls[c].entry \in Range(dlq)

(***************************************************************************)
(* getEntries and getStats (dead-letter-queue.js:140-160, 224-250) on a    *)
(* queue created with the options of getDLQ(), one call at a time: the     *)
(* queue has loaded what an earlier session stored, or loads it in the     *)
(* call.                                                                   *)
(***************************************************************************)
MaxStored == 2

QueryTimes == {1, DlqStart - 1, DlqStart}
QueryEntry(type, errorCode, source, t) ==
  [DeadLetterEntry(0, errorCode, "CLOSED", t) EXCEPT !.type = type, !.source = source]
QueryEntries ==
  {QueryEntry(type, errorCode, source, t) :
     type \in {"RESOURCE_FETCH_FAILURE", "CAPTURE_FAILURE"},
     errorCode \in {"NETWORK_FAILURE", "CIRCUIT_OPEN"},
     source \in {"fetchResource", "background"},
     t \in QueryTimes}
QueryQueues == UNION {[1..n -> QueryEntries] : n \in 0..MaxStored}
QueryFilters ==
  [type : {"", "CAPTURE_FAILURE"}, errorCode : {"", "CIRCUIT_OPEN"},
   source : {"", "background"}, since : {0, DlqStart}]

\* the entries after load(): what storage holds when the queue has not loaded yet
Loaded == IF dqInitialized \/ ~dqStorage.has THEN dlq ELSE cleanExpired(dqStorage.entries, now)

QueryGetEntries(filter) ==
  /\ input' = filter
  /\ output' = [op |-> "getEntries", result |-> getEntries(Loaded, filter, now)]
  /\ dlq' = cleanExpired(Loaded, now)
  /\ dqInitialized' = TRUE
  /\ UNCHANGED <<now, dqStorage, nonQueryVars>>

QueryGetStats ==
  /\ output' = [op |-> "getStats", result |-> getStats(Loaded, now)]
  /\ dlq' = cleanExpired(Loaded, now)
  /\ dqInitialized' = TRUE
  /\ UNCHANGED <<now, input, dqStorage, nonQueryVars>>

InitQuery ==
  /\ now = DlqStart
  /\ CbInit
  /\ RegInit
  /\ ManyInit
  /\ ProcessInit
  /\ CacheIdle
  /\ FnIdle
  /\ cache = <<>>
  /\ breakers = <<>>
  /\ tasks = [s \in Slots |-> IdleTask]
  /\ dqCalls = <<>>
  /\ \E held \in QueryQueues :
       \/ /\ dqInitialized = TRUE
          /\ dlq = held
          /\ dqStorage = [has |-> FALSE, entries |-> <<>>]
       \/ /\ dqInitialized = FALSE
          /\ dlq = <<>>
          /\ dqStorage = [has |-> TRUE, entries |-> held]

NextQuery ==
  \/ \E filter \in QueryFilters : QueryGetEntries(filter)
  \/ QueryGetStats
  \/ DqTick

SpecQuery == InitQuery /\ [][NextQuery]_vars

\* ---- what SpecQuery's claims speak of ----
\* the entries held that have not expired
Kept == SelectSeq(Loaded, LAMBDA e : now - e.timestamp < retentionPeriod)

RECURSIVE SumOver(_, _)
SumOver(f, S) ==
  IF S = {} THEN 0
  ELSE LET x == CHOOSE x \in S : TRUE IN f[x] + SumOver(f, S \ {x})

\* C27: getEntries(filter) returns the unexpired entries that meet every criterion
\* given, each as often as it is held and no other, from newest to oldest; the
\* total of getStats() is the number of unexpired entries and the sum of the
\* counts by type
C27_FilteredNewestFirst ==
  [][/\ (output'.op = "getEntries" /\ now' = now) =>
          LET result == output'.result
              filter == input'
              Meets(e) ==
                /\ filter.type = "" \/ e.type = filter.type
                /\ filter.errorCode = "" \/ e.errorCode = filter.errorCode
                /\ filter.source = "" \/ e.source = filter.source
                /\ filter.since = 0 \/ e.timestamp >= filter.since
          IN /\ \A e \in QueryEntries :
                  Count(result, e) = IF Meets(e) THEN Count(Kept, e) ELSE 0
             /\ Range(result) \subseteq QueryEntries
             /\ \A i, j \in 1..Len(result) :
                  i < j => result[i].timestamp >= result[j].timestamp
     /\ (output'.op = "getStats" /\ now' = now) =>
          /\ output'.result.total = Len(Kept)
          /\ output'.result.total =
               SumOver(output'.result.byType, DOMAIN output'.result.byType)]_vars

\* a queue of two entries of source background, asked for the entries of that
\* source since DlqStart: the one that is recent enough is returned
C27_Witness ==
  /\ now = DlqStart + 1
  /\ input = [type |-> "", errorCode |-> "", source |-> "background", since |-> DlqStart]
  /\ output.op = "getEntries"
  /\ Len(output.result) = 1
  /\ Len(dlq) = 2
  /\ dlq[1].timestamp = DlqStart - 1
  /\ dlq[1].source = "background"
  /\ dlq[2].source = "background"

(***************************************************************************)
(* The resource cache on its own (utils:889-948): a cache created with     *)
(* maxSize: CacheCap and the ttl of the fetcher's, under any sequence of   *)
(* get, set and clear calls; the calls are synchronous.                    *)
(***************************************************************************)
CacheCap == 3

\* the instants of SpecCache's clock: an entry set at 0 is older than ttl at ttl + 1
CacheTimes == {0, 1, ttl, ttl + 1}

CacheUrls == {CssUrl, CssUrlTracked, PngUrl, FontUrl, ImportedCss}

\* what is stored for a URL: the resource fetched, of one size or another
CacheValues(url) ==
  IF url = CssUrl
  THEN {[NoValue EXCEPT !.url = url, !.size = n] : n \in {1, 2}}
  ELSE {[NoValue EXCEPT !.url = url, !.size = 1]}

\* get(url)
CacheGet(url) ==
  /\ cacheEv' = [op |-> "get", url |-> url, size |-> Len(cache),
                 result |-> cacheGet(cache, url, now)]
  /\ cache' = cacheAfterGet(cache, url, now)
  /\ UNCHANGED <<now, nonCacheVars>>

\* set(url, value)
CacheSet(url, value) ==
  /\ cacheEv' = [op |-> "set", url |-> url, size |-> Len(cache),
                 result |-> [found |-> FALSE, value |-> value]]
  /\ cache' = cacheSetOf(cache, url, value, now, CacheCap)
  /\ UNCHANGED <<now, nonCacheVars>>

\* clear()
CacheClear ==
  /\ cacheEv' = [op |-> "clear", url |-> "", size |-> Len(cache),
                 result |-> [found |-> FALSE, value |-> NoValue]]
  /\ cache' = <<>>
  /\ UNCHANGED <<now, nonCacheVars>>

\* Date.now() moves to a later instant
CacheTick ==
  /\ \E t \in CacheTimes : t > now /\ now' = t
  /\ UNCHANGED <<cache, cacheEv, nonCacheVars>>

InitCache ==
  /\ now = 0
  /\ CbInit
  /\ FetchInit
  /\ ManyInit
  /\ ProcessInit
  /\ RegInit
  /\ FnIdle
  /\ DqIdle
  /\ CacheIdle

NextCache ==
  \/ \E url \in CacheUrls : CacheGet(url)
  \/ \E url \in CacheUrls : \E value \in CacheValues(normalizeUrl(url)) : CacheSet(url, value)
  \/ CacheClear
  \/ CacheTick

SpecCache == InitCache /\ [][NextCache]_vars

\* ---- what SpecCache's claims speak of ----
\* cacheEv is the call made last, the size the cache had before it and what it returned;
\* a step that leaves the clock alone is a call
Calls(op) == cacheEv'.op = op /\ now' = now

CacheKeys(c) == {c[i].key : i \in 1..Len(c)}

\* the entry stored under key in c
EntryOf(c, key) == c[CHOOSE i \in 1..Len(c) : c[i].key = key]

C18_GetExpires ==
  [][(Calls("get") /\ normalizeUrl(cacheEv'.url) \in CacheKeys(cache)) =>
       LET key == normalizeUrl(cacheEv'.url)
           entry == EntryOf(cache, key)
       IN IF now - entry.timestamp > ttl
          THEN /\ ~cacheEv'.result.found
               /\ CacheKeys(cache') = CacheKeys(cache) \ {key}
               /\ \A k \in CacheKeys(cache') : EntryOf(cache', k) = EntryOf(cache, k)
          ELSE /\ cacheEv'.result = [found |-> TRUE, value |-> entry.value]
               /\ cache' = cache]_vars

C18_Witness ==
  /\ cacheEv.op = "get"
  /\ ~cacheEv.result.found
  /\ cacheEv.size = 2
  /\ Len(cache) = 1
  /\ now - cache[1].timestamp = ttl
  /\ cache[1].key # normalizeUrl(cacheEv.url)

(***************************************************************************)
(* HTML processor: core/html-processor.js                                  *)
(* A page is the sequence of its resource references and a stylesheet the  *)
(* sequence of its url() and @import rules, every URL already resolved     *)
(* against its base; the processor copies the text between them as it is.  *)
(*   html reference   [tag, url, css]   tag: link | img, and in the output *)
(*                                      style (css: the inlined rules) and *)
(*                                      imgData (src is the data URI)      *)
(*   css rule         [rule, url]       rule: url        url(u)            *)
(*                                            import     @import "u";      *)
(*                                            importUrl  @import url(u);   *)
(*                                      and in the output                  *)
(*                                            data       url(data:...)     *)
(*                                            importData @import url(data:)*)
(*                                            comment    Inlined from u    *)
(***************************************************************************)
Link(url) == [tag |-> "link", url |-> url, css |-> <<>>]
Img(url) == [tag |-> "img", url |-> url, css |-> <<>>]
Rule(rule, url) == [rule |-> rule, url |-> url]

\* the pages and stylesheets of SpecProcess
MaxRefs == 2
MaxRules == 2
HtmlRefs == {Link(CssUrl), Link(ImportedCss), Img(PngUrl)}
CssRules ==
  {Rule("url", PngUrl), Rule("url", FontUrl), Rule("import", CssUrl),
   Rule("import", ImportedCss), Rule("importUrl", ImportedCss)}
Pages == UNION {[1..n -> HtmlRefs] : n \in 0..MaxRefs}
Sheets == UNION {[1..n -> CssRules] : n \in 0..MaxRules}
ImportedSheets == {<<>>, <<Rule("url", PngUrl)>>, <<Rule("import", CssUrl)>>}

\* how many nested calls the engine's call stack holds before it throws
\* RangeError: Maximum call stack size exceeded
StackLimit == 4

\* unique(array): the first occurrences, in order
RECURSIVE unique(_)
unique(array) ==
  IF array = <<>> THEN <<>>
  ELSE LET front == unique(SubSeq(array, 1, Len(array) - 1))
           item == array[Len(array)]
       IN IF \E i \in 1..Len(front) : front[i] = item THEN front
          ELSE Append(front, item)

\* the URLs the pattern of one of the given rule kinds matches in css, in order
RECURSIVE CssMatches(_, _)
CssMatches(css, rules) ==
  IF css = <<>> THEN <<>>
  ELSE (IF Head(css).rule \in rules THEN <<Head(css).url>> ELSE <<>>)
         \o CssMatches(Tail(css), rules)

\* url.startsWith('data:')
IsDataUrl(url) == url = DataUrl

\* extractCssUrls: the url() matches (an @import url(u) is one of them), then
\* the @import matches, those that do not start with data:
extractCssUrls(css) ==
  unique(SelectSeq(CssMatches(css, {"url", "importUrl"})
                     \o CssMatches(css, {"import", "importUrl"}),
                   LAMBDA url : ~IsDataUrl(url)))

\* the URLs of the page's references with the given tag, in order
RECURSIVE HtmlMatches(_, _)
HtmlMatches(page, tag) ==
  IF page = <<>> THEN <<>>
  ELSE (IF Head(page).tag = tag THEN <<Head(page).url>> ELSE <<>>)
         \o HtmlMatches(Tail(page), tag)

\* createDefaultConfig(): the fields discovery reads
createDefaultConfig ==
  [includeScripts |-> TRUE,
   excludePatterns |-> <<"*analytics*", "*tracking*", "*advertisement*">>]

\* new RegExp(pattern with * as .* and ? as ., 'i').test(url.toLowerCase())
GlobTest(pattern, url) == pattern = "*analytics*" /\ url = AnalyticsUrl

shouldExclude(url, patterns) ==
  \E i \in 1..Len(patterns) : GlobTest(patterns[i], url)

\* extractHtmlUrls(html, baseUrl, config). The tags of a page: link, img, script,
\* iframe (one of the other elements with a src) and srcset (one candidate of a
\* srcset attribute).
extractHtmlUrlsOf(page, config) ==
  LET Listed(url) == ~shouldExclude(url, config.excludePatterns)
      Src(url) == ~(IsDataUrl(url) \/ shouldExclude(url, config.excludePatterns))
  IN [stylesheets |-> unique(SelectSeq(HtmlMatches(page, "link"), Listed)),
      scripts |-> IF config.includeScripts
                  THEN unique(SelectSeq(HtmlMatches(page, "script"), Src))
                  ELSE <<>>,
      images |-> unique(SelectSeq(HtmlMatches(page, "img"), Src)
                          \o SelectSeq(HtmlMatches(page, "srcset"),
                                       LAMBDA url : ~IsDataUrl(url))),
      other |-> unique(SelectSeq(HtmlMatches(page, "iframe"), Src))]

\* extractHtmlUrls under the default configuration
extractHtmlUrls(page) == extractHtmlUrlsOf(page, createDefaultConfig)

\* const allUrls = [...urls.stylesheets, ...urls.scripts, ...urls.images, ...urls.other]
AllUrlsOf(page, config) ==
  LET extracted == extractHtmlUrlsOf(page, config)
  IN extracted.stylesheets \o extracted.scripts \o extracted.images \o extracted.other

AllUrls(page) == AllUrlsOf(page, createDefaultConfig)

\* resource?.ok
IsOk(resourceMap, url) ==
  IF url \in DOMAIN resourceMap THEN resourceMap[url].ok ELSE FALSE

\* resource?.ok && resource.value.type === 'css'
IsOkCss(resourceMap, url) ==
  IF IsOk(resourceMap, url) THEN resourceMap[url].value.type = "css" ELSE FALSE

\* the first replace of inlineCssUrls, on one rule: a url() whose resource is
\* Ok becomes its data URI (every Ok resource has one)
ReplaceUrlMutAlways(r, resourceMap) ==
  CASE r.rule = "url" -> Rule("data", r.url)
    [] r.rule = "importUrl" -> Rule("importData", r.url)
    [] OTHER -> r
ReplaceUrl(r, resourceMap) ==
  CASE r.rule = "url" /\ IsOk(resourceMap, r.url) -> Rule("data", r.url)
    [] r.rule = "importUrl" /\ IsOk(resourceMap, r.url) -> Rule("importData", r.url)
    [] OTHER -> r

\* inlineCssUrls(css, baseUrl, resourceMap), called at the given depth of the
\* call stack. The result is [thrown, out]: thrown when the stack overflowed.
\* ReplaceImports is its second replace: an @import whose resource is an Ok
\* stylesheet becomes a comment and that stylesheet's content, inlined by a
\* nested call.
RECURSIVE inlineCssUrls(_, _, _)
RECURSIVE ReplaceImports(_, _, _)
ReplaceImports(rules, resourceMap, depth) ==
  IF rules = <<>> THEN [thrown |-> FALSE, out |-> <<>>]
  ELSE LET r == Head(rules)
           first ==
             IF r.rule \in {"import", "importUrl"} /\ IsOkCss(resourceMap, r.url)
             THEN LET inlinedCss ==
                        inlineCssUrls(resourceMap[r.url].value.content,
                                      resourceMap, depth + 1)
                  IN [thrown |-> inlinedCss.thrown,
                      out |-> <<Rule("comment", r.url)>> \o inlinedCss.out]
             ELSE [thrown |-> FALSE, out |-> <<r>>]
       IN IF first.thrown THEN [thrown |-> TRUE, out |-> <<>>]
          ELSE LET rest == ReplaceImports(Tail(rules), resourceMap, depth)
               IN [thrown |-> rest.thrown,
                   out |-> IF rest.thrown THEN <<>> ELSE first.out \o rest.out]

inlineCssUrls(css, resourceMap, depth) ==
  IF depth > StackLimit THEN [thrown |-> TRUE, out |-> <<>>]
  ELSE ReplaceImports([i \in 1..Len(css) |-> ReplaceUrl(css[i], resourceMap)],
                      resourceMap, depth)

\* inlineHtmlResources: the stylesheet links, then the images
RECURSIVE inlineHtmlResources(_, _)
inlineHtmlResources(page, resourceMap) ==
  IF page = <<>> THEN [thrown |-> FALSE, out |-> <<>>]
  ELSE LET ref == Head(page)
           inlinedCss ==
             inlineCssUrls(resourceMap[ref.url].value.content, resourceMap, 1)
           first ==
             CASE ref.tag = "link" /\ IsOkCss(resourceMap, ref.url) ->
                    [thrown |-> inlinedCss.thrown,
                     out |-> [tag |-> "style", url |-> ref.url,
                              css |-> inlinedCss.out]]
               [] ref.tag = "img" /\ IsOk(resourceMap, ref.url) ->
                    [thrown |-> FALSE,
                     out |-> [tag |-> "imgData", url |-> ref.url, css |-> <<>>]]
               [] OTHER -> [thrown |-> FALSE, out |-> ref]
       IN IF first.thrown THEN [thrown |-> TRUE, out |-> <<>>]
          ELSE LET rest == inlineHtmlResources(Tail(page), resourceMap)
               IN [thrown |-> rest.thrown,
                   out |-> IF rest.thrown THEN <<>> ELSE <<first.out>> \o rest.out]

\* the Resource fetchResource makes of a response; its content is the body
\* the URL is served with
Resource(url) ==
  LET contentType == ContentTypeHeader(url)
      mimeType == IF contentType # "" THEN MimeOf(contentType) ELSE inferMimeType(url)
  IN [url |-> url, type |-> getResourceType(url, mimeType), mimeType |-> mimeType,
      size |-> 0, content |-> IF url \in DOMAIN sheets THEN sheets[url] ELSE <<>>]

\* how the fetch of one URL can end: Ok, or Err with an error code
FetchOutcomes == {"ok", "NETWORK_FAILURE", "CIRCUIT_OPEN"}

\* the Map fetchResources(list) returns when the fetches end as outcome says
fetchResources(list, outcome) ==
  [url \in Range(list) |->
     IF outcome[url] = "ok" THEN Ok(Resource(url)) ELSE Err(outcome[url])]

\* the for loop over primaryResources.entries() that fills cssUrls (the
\* entries taken in the order of order)
RECURSIVE SecondLevelMutKeepFetched(_, _)
SecondLevelMutKeepFetched(order, resources) ==
  IF order = <<>> THEN <<>>
  ELSE (IF IsOkCss(resources, Head(order))
        THEN extractCssUrls(resources[Head(order)].value.content)
        ELSE <<>>)
         \o SecondLevelMutKeepFetched(Tail(order), resources)
RECURSIVE SecondLevel(_, _)
SecondLevel(order, resources) ==
  IF order = <<>> THEN <<>>
  ELSE (IF IsOkCss(resources, Head(order))
        THEN SelectSeq(extractCssUrls(resources[Head(order)].value.content),
                       LAMBDA u : u \notin DOMAIN resources)
        ELSE <<>>)
         \o SecondLevel(Tail(order), resources)

\* for (const [url, result] of cssResources.entries()) primaryResources.set(url, result)
Merge(resources, cssResources) ==
  [url \in DOMAIN resources \cup DOMAIN cssResources |->
     IF url \in DOMAIN cssResources THEN cssResources[url] ELSE resources[url]]

Stats(page, css, resources) ==
  [totalResources |-> Len(AllUrls(page)) + Len(css),
   successfulFetches |-> Cardinality({u \in DOMAIN resources : resources[u].ok}),
   failedFetches |-> Cardinality({u \in DOMAIN resources : ~resources[u].ok}),
   stylesheets |-> Len(extractHtmlUrls(page).stylesheets),
   scripts |-> Len(extractHtmlUrls(page).scripts),
   images |-> Len(extractHtmlUrls(page).images)]

\* from progress('inlining', 70) to the return, and the catch block.
\* ensureBaseTag and addMetadata add tags after <head>, no reference changes.
Finish(resources, css) ==
  LET processedHtml == inlineHtmlResources(html, resources)
  IN /\ primaryResources' = resources
     /\ procError' = IF processedHtml.thrown THEN "RangeError" ELSE ""
     /\ procResult' =
          IF processedHtml.thrown THEN Err("SERIALIZATION_FAILED")
          ELSE Ok([html |-> processedHtml.out, resources |-> resources,
                   stats |-> Stats(html, css, resources)])
     /\ procPc' = "done"

\* progress(stage, percent): what onProgress is called with. The percent is kept
\* in tenths of a percent (10 + p * 0.4 of p = 33 is 232).
ProgressEvent(stage, percent) == [stage |-> stage, percent |-> percent]

\* the calls fetchResources makes of the callback processHtml gives it, one for
\* each distinct URL of list as its fetch completes: progress(stage, base + p.percent * factor)
FetchProgressMutUnscaled(stage, base, factor, list) ==
  [k \in 1..Len(list) |->
     ProgressEvent(stage, base + 10 * progressReport(k, Len(list)).percent)]
FetchProgress(stage, base, factor, list) ==
  [k \in 1..Len(list) |->
     ProgressEvent(stage, base + factor * progressReport(k, Len(list)).percent)]

\* progress('inlining', 70), and progress('complete', 100) unless inlining threw
FinishProgress(resources) ==
  <<ProgressEvent("inlining", 700)>>
    \o (IF inlineHtmlResources(html, resources).thrown THEN <<>>
        ELSE <<ProgressEvent("complete", 1000)>>)

\* processHtml is called: the URLs are extracted, fetchResources(allUrls) is
\* awaited
ProcCall ==
  /\ procPc = "idle"
  /\ procPc' = "primary"
  /\ procEvents' = <<ProgressEvent("extracting", 0), ProgressEvent("fetching", 100)>>
  /\ UNCHANGED <<html, sheets, primaryResources, cssUrls, procResult, procError,
                 nonProcessVars>>

\* the primary fetches are done: the second level URLs are collected, and
\* fetched if there are any
ProcPrimaryFetched(outcome) ==
  /\ procPc = "primary"
  /\ LET resources == fetchResources(AllUrls(html), outcome)
         css == SecondLevel(unique(AllUrls(html)), resources)
         events == procEvents \o FetchProgress("fetching", 100, 4, unique(AllUrls(html)))
                     \o <<ProgressEvent("processing-css", 500)>>
     IN /\ cssUrls' = css
        /\ IF Len(css) > 0
           THEN /\ primaryResources' = resources
                /\ procPc' = "css"
                /\ procEvents' = events
                /\ UNCHANGED <<procResult, procError>>
           ELSE /\ Finish(resources, css)
                /\ procEvents' = events \o FinishProgress(resources)
  /\ UNCHANGED <<html, sheets, nonProcessVars>>

\* the second level fetches are done: they are merged into primaryResources
ProcCssFetched(outcome) ==
  /\ procPc = "css"
  /\ LET resources == Merge(primaryResources, fetchResources(unique(cssUrls), outcome))
     IN /\ Finish(resources, cssUrls)
        /\ procEvents' =
             procEvents \o FetchProgress("fetching-css-resources", 500, 2, unique(cssUrls))
                        \o FinishProgress(resources)
  /\ UNCHANGED <<html, sheets, cssUrls, nonProcessVars>>

InitProcess ==
  /\ now = 0
  /\ CbInit
  /\ FetchInit
  /\ ManyInit
  /\ html \in Pages
  /\ sheets \in {[url \in {CssUrl, ImportedCss} |->
                    IF url = CssUrl THEN css ELSE imported] :
                  css \in Sheets, imported \in ImportedSheets}
  /\ procPc = "idle"
  /\ primaryResources = <<>>
  /\ cssUrls = <<>>
  /\ procResult = NoResult
  /\ procError = ""
  /\ procRuns = <<>>
  /\ procEvents = <<>>
  /\ RegInit
  /\ FnIdle
  /\ DqIdle
  /\ CacheIdle

NextProcess ==
  \/ ProcCall
  \/ \E outcome \in [Range(AllUrls(html)) -> FetchOutcomes] :
       ProcPrimaryFetched(outcome)
  \/ \E outcome \in [Range(cssUrls) -> FetchOutcomes] : ProcCssFetched(outcome)

SpecProcess == InitProcess /\ [][NextProcess]_vars

\* the resources whose fetch failed
Failed == {u \in DOMAIN primaryResources : ~primaryResources[u].ok}

\* C6: whichever of its resources fail, processHtml returns Ok; a failed
\* resource is in the returned map as a failure and counted in failedFetches,
\* and its references in the output are those of the input.
C6_FailuresNeverAbort ==
  procPc = "done" =>
    /\ procResult.ok
    /\ \A u \in Failed : /\ u \in DOMAIN procResult.value.resources
                         /\ ~procResult.value.resources[u].ok
    /\ procResult.value.stats.failedFetches = Cardinality(Failed)
    /\ Len(procResult.value.html) = Len(html)
    /\ \A i \in 1..Len(html) :
         LET ref == procResult.value.html[i]
         IN /\ html[i].url \in Failed => ref = html[i]
            /\ \A j \in 1..Len(ref.css) :
                 ref.css[j].url \in Failed =>
                   ref.css[j].rule \in {"url", "import", "importUrl"}

\* C7: inlining the stylesheets of a page ends without exhausting the call
\* stack, whatever imports what, and processHtml returns the inlined page.
C7_InliningTerminates ==
  procPc = "done" => procError # "RangeError" /\ procResult.ok


\* the url() rules of a stylesheet
UrlRules(css) == {i \in 1..Len(css) : css[i].rule = "url"}

\* C12: in the <style> block processHtml writes for a fetched stylesheet, a
\* url() whose fetch failed stands as in the stylesheet and a url() whose
\* fetch succeeded stands as its data URI, as often as in the stylesheet and
\* (when nothing is imported into the block) at the same place; failedFetches
\* counts every failed URL once.
C12_FailedUrlKept ==
  (procPc = "done" /\ procResult.ok) =>
    /\ procResult.value.stats.failedFetches = Cardinality(Failed)
    /\ \A i \in 1..Len(html) :
         (html[i].tag = "link" /\ IsOkCss(primaryResources, html[i].url)) =>
           LET css == sheets[html[i].url]
               style == procResult.value.html[i]
           IN /\ style.tag = "style"
              /\ \A j \in UrlRules(css) :
                   LET u == css[j].url
                       kept == Rule("url", u)
                       embedded == Rule("data", u)
                   IN IF IsOk(primaryResources, u)
                      THEN /\ Count(style.css, kept) = 0
                           /\ Count(style.css, embedded) >= Count(css, kept)
                      ELSE /\ Count(style.css, embedded) = 0
                           /\ Count(style.css, kept) >= Count(css, kept)
                           /\ u \in Failed
              /\ (\A j \in 1..Len(css) : css[j].rule = "url") =>
                   /\ Len(style.css) = Len(css)
                   /\ \A j \in 1..Len(css) :
                        style.css[j] =
                          IF css[j].url \in Failed THEN css[j]
                          ELSE Rule("data", css[j].url)

\* C12 witness: a stylesheet with two url() references was inlined, the fetch
\* of one failed and the fetch of the other succeeded
C12_Witness ==
  /\ procPc = "done" /\ procResult.ok
  /\ \E i \in 1..Len(html) :
       /\ procResult.value.html[i].tag = "style"
       /\ \E u, v \in {PngUrl, FontUrl} :
            /\ u \in Failed /\ IsOk(primaryResources, v)
            /\ sheets[html[i].url] = <<Rule("url", u), Rule("url", v)>>
            /\ procResult.value.html[i].css = <<Rule("url", u), Rule("data", v)>>
            /\ procResult.value.stats.failedFetches = 1

\* the place of a stage in the order extraction, primary fetch, CSS discovery,
\* secondary fetch, inlining, completion
StageRank(stage) ==
  CASE stage = "extracting" -> 1
    [] stage = "fetching" -> 2
    [] stage = "processing-css" -> 3
    [] stage = "fetching-css-resources" -> 4
    [] stage = "inlining" -> 5
    [] stage = "complete" -> 6

Stages == {procEvents[k].stage : k \in 1..Len(procEvents)}

\* C21: the progress events of a processHtml call come in the order of the stages,
\* those of the secondary fetch only when there are level-2 URLs; the percent never
\* decreases and stays within 0..100; the call ends with completion at 100 exactly
\* when it returns Ok.
C21_ProgressStages ==
  /\ \A k \in 1..Len(procEvents) :
       /\ procEvents[k].percent >= 0 /\ procEvents[k].percent <= 1000
       /\ k > 1 =>
            /\ StageRank(procEvents[k - 1].stage) <= StageRank(procEvents[k].stage)
            /\ procEvents[k - 1].percent <= procEvents[k].percent
       /\ procEvents[k].stage = "complete" =>
            k = Len(procEvents) /\ procEvents[k].percent = 1000 /\ procPc = "done"
  /\ procPc # "idle" => procEvents[1] = ProgressEvent("extracting", 0)
  /\ "fetching-css-resources" \in Stages => Len(cssUrls) > 0
  /\ procPc = "css" => Stages = {"extracting", "fetching", "processing-css"}
  /\ procPc = "done" =>
       /\ {"extracting", "fetching", "processing-css", "inlining"} \subseteq Stages
       /\ Len(cssUrls) > 0 => "fetching-css-resources" \in Stages
       /\ procResult.ok <=> procEvents[Len(procEvents)] = ProgressEvent("complete", 1000)

\* C21 witness: a call with two primary and two level-2 resources returned Ok; the
\* first secondary fetch was reported at 60 percent
C21_Witness ==
  /\ procPc = "done" /\ procResult.ok
  /\ Len(procEvents) = 9
  /\ procEvents[3] = ProgressEvent("fetching", 300)
  /\ procEvents[6] = ProgressEvent("fetching-css-resources", 600)
  /\ procEvents[9] = ProgressEvent("complete", 1000)

\* the URLs the stylesheets among the page's own URLs name
NestedUrls ==
  UNION {{sheets[u][i].url : i \in 1..Len(sheets[u])} :
           u \in Range(AllUrls(html)) \cap DOMAIN sheets}

\* C33: the list of the second fetchResources call, unique(cssUrls), holds no URL
\* of the first call's list and no URL twice; and the resources processHtml
\* returns are URLs of the page or URLs named by a stylesheet of the page, not
\* ones named only by a stylesheet fetched at the second level
C33_EachUrlRequestedOnce ==
  procPc \in {"css", "done"} =>
    LET second == unique(cssUrls)
    IN /\ \A i \in 1..Len(second) : second[i] \notin Range(AllUrls(html))
       /\ \A i, j \in 1..Len(second) : i # j => second[i] # second[j]
       /\ (procPc = "done" /\ procResult.ok) =>
            DOMAIN procResult.value.resources \subseteq Range(AllUrls(html)) \cup NestedUrls

\* C33 witness: two stylesheets of the page name the same image, and one of them a
\* font as well; the image is not among the page's own URLs
C33_Witness ==
  /\ procPc = "done"
  /\ procResult.ok
  /\ html = <<Link(CssUrl), Link(ImportedCss)>>
  /\ cssUrls = <<PngUrl, FontUrl, PngUrl>>
  /\ DOMAIN procResult.value.resources = {CssUrl, ImportedCss, PngUrl, FontUrl}

\* C38: in an Ok result of processHtml, successfulFetches + failedFetches is the
\* number of entries of the resource map returned, and is totalResources
C38_StatsAddUp ==
  (procPc = "done" /\ procResult.ok) =>
    LET stats == procResult.value.stats
    IN /\ stats.successfulFetches + stats.failedFetches =
            Cardinality(DOMAIN procResult.value.resources)
       /\ stats.successfulFetches + stats.failedFetches = stats.totalResources

(***************************************************************************)
(* URL discovery on its own: extractHtmlUrls (html-processor.js:127-192),  *)
(* extractCssUrls (44-67) and the two lists processHtml hands to           *)
(* fetchResources (361-391), for a page, the content of its stylesheet     *)
(* and a configuration.                                                    *)
(***************************************************************************)
MaxTags == 2

DiscUrls == {CssUrl, PngUrl, DataUrl, BlobUrl, AnalyticsUrl}
DiscRefs ==
  {[tag |-> tag, url |-> url, css |-> <<>>] :
     tag \in {"link", "img", "script", "iframe", "srcset"}, url \in DiscUrls}
DiscPages == UNION {[1..n -> DiscRefs] : n \in 0..MaxTags}
DiscSheets ==
  {<<>>} \cup {<<Rule(rule, url)>> : rule \in {"url", "import"}, url \in DiscUrls \ {CssUrl}}
DiscConfigs ==
  {[includeScripts |-> b, excludePatterns |-> p] :
     b \in BOOLEAN, p \in {<<>>, createDefaultConfig.excludePatterns}}

\* the URLs processHtml passes to fetchResources: allUrls, and unique(cssUrls) when
\* there are any; outcome tells how the primary fetches end
FetchLists(page, config, outcome) ==
  LET allUrls == AllUrlsOf(page, config)
      css == SecondLevel(unique(allUrls), fetchResources(allUrls, outcome))
  IN [primary |-> allUrls, secondary |-> unique(css)]

DiscExtractHtml ==
  /\ output' = [op |-> "extractHtmlUrls", urls |-> extractHtmlUrlsOf(html, input)]
  /\ UNCHANGED <<input, memoVars, captures, processVars, nonFnVars>>

DiscExtractCss ==
  /\ output' = [op |-> "extractCssUrls", urls |-> extractCssUrls(sheets[CssUrl])]
  /\ UNCHANGED <<input, memoVars, captures, processVars, nonFnVars>>

DiscProcess(outcome) ==
  /\ output' = [op |-> "processHtml", urls |-> FetchLists(html, input, outcome)]
  /\ UNCHANGED <<input, memoVars, captures, processVars, nonFnVars>>

InitDiscover ==
  /\ now = 0
  /\ CbInit
  /\ FetchInit
  /\ ManyInit
  /\ html \in DiscPages
  /\ sheets \in {[url \in {CssUrl} |-> css] : css \in DiscSheets}
  /\ procPc = "idle"
  /\ primaryResources = <<>>
  /\ cssUrls = <<>>
  /\ procResult = NoResult
  /\ procError = ""
  /\ procRuns = <<>>
  /\ procEvents = <<>>
  /\ RegInit
  /\ DqIdle
  /\ CacheIdle
  /\ input \in DiscConfigs
  /\ output = [op |-> "none"]
  /\ MemoIdle
  /\ CapturesIdle

NextDiscover ==
  \/ DiscExtractHtml
  \/ DiscExtractCss
  \/ \E outcome \in [Range(AllUrlsOf(html, input)) -> {"ok", "NETWORK_FAILURE"}] :
       DiscProcess(outcome)

SpecDiscover == InitDiscover /\ [][NextDiscover]_vars

\* ---- what SpecDiscover's claims speak of ----
\* every URL an application returned
Discovered ==
  CASE output.op = "extractHtmlUrls" ->
         Range(output.urls.stylesheets) \cup Range(output.urls.scripts)
           \cup Range(output.urls.images) \cup Range(output.urls.other)
    [] output.op = "extractCssUrls" -> Range(output.urls)
    [] output.op = "processHtml" ->
         Range(output.urls.primary) \cup Range(output.urls.secondary)
    [] OTHER -> {}

\* C23: no URL that matches an exclusion pattern of the configuration is returned
\* by extractHtmlUrls or by the discovery in a fetched stylesheet, nor passed to
\* fetchResources by processHtml
C23_ExcludedNeverFetched ==
  \A url \in Discovered : ~shouldExclude(url, input.excludePatterns)

\* C24: no data: or blob: URL is returned by extractHtmlUrls or extractCssUrls, nor
\* passed to fetchResources by processHtml
C24_NoDataOrBlob ==
  \A url \in Discovered : url \notin {DataUrl, BlobUrl}

\* C25: the four lists extractHtmlUrls returns have no URL in common, and scripts is
\* empty when includeScripts is not set
C25_DisjointCategories ==
  output.op = "extractHtmlUrls" =>
    LET lists == <<Range(output.urls.stylesheets), Range(output.urls.scripts),
                   Range(output.urls.images), Range(output.urls.other)>>
    IN /\ \A i, j \in 1..4 : i # j => lists[i] \cap lists[j] = {}
       /\ ~input.includeScripts => output.urls.scripts = <<>>

(***************************************************************************)
(* memoizeAsync (utils.js:799-879): one memoized function, called with     *)
(* keys of MemoKeys. The n-th invocation of fn returns n when it fulfils.  *)
(* A promise of fn is pending, then settling (its then callback has run,   *)
(* its finally callback has not), then fulfilled or rejected.              *)
(***************************************************************************)
MemoMaxSize == 1
MaxMemoCalls == 3
defaultTtl == 300000
MemoTimes == {0, defaultTtl, defaultTtl + 1}

\* cache.has(key)
MemoHas(c, key) == c[key].accessCount > 0

\* cache.size
MemoSize(c) == Cardinality({k \in MemoKeys : MemoHas(c, k)})

\* const isExpired = (entry) => Date.now() - entry.timestamp > ttl
isExpired(entry, t) == t - entry.timestamp > defaultTtl

evictExpired(c, t) ==
  [k \in MemoKeys |-> IF MemoHas(c, k) /\ isExpired(c[k], t) THEN NoMemoEntry ELSE c[k]]

\* Math.ceil(maxSize * 0.2)
EvictCount(cap) == (2 * cap + 9) \div 10

\* entries sorted by accessCount (no two are equal), the first n deleted
RECURSIVE DeleteLeastUsed(_, _)
DeleteLeastUsed(c, n) ==
  IF n = 0 \/ MemoSize(c) = 0 THEN c
  ELSE LET least == CHOOSE k \in MemoKeys :
                      /\ MemoHas(c, k)
                      /\ \A j \in MemoKeys : MemoHas(c, j) => c[k].accessCount <= c[j].accessCount
       IN DeleteLeastUsed([c EXCEPT ![least] = NoMemoEntry], n - 1)

evictLRU(c, t, cap) ==
  LET kept == evictExpired(c, t)
  IN IF MemoSize(kept) < cap THEN kept ELSE DeleteLeastUsed(kept, EvictCount(cap))

\* if (pendingPromises.has(key)) return pendingPromises.get(key)
PendingForMutNone(pending, key) == 0
PendingFor(pending, key) == pending[key]

\* memoizedAsync(...args) with keyGenerator(...args) = key
MemoCall(key) ==
  /\ memoLog.calls < MaxMemoCalls
  /\ LET entry == memo.cache[key]
         hit == MemoHas(memo.cache, key) /\ ~isExpired(entry, now)
         missed == [memo.cache EXCEPT ![key] = NoMemoEntry]
         shared == PendingFor(memo.pendingPromises, key)
         started == Len(memoLog.promises) + 1
     IN IF hit
        THEN /\ memo' = [memo EXCEPT !.cache[key].accessCount = memo.accessCounter + 1,
                                      !.accessCounter = @ + 1]
             /\ memoLog' = [memoLog EXCEPT !.calls = @ + 1,
                               !.last = [key |-> key, promise |-> 0, value |-> entry.value,
                                         invoked |-> FALSE]]
        ELSE IF shared # 0
        THEN /\ memo' = [memo EXCEPT !.cache = missed]
             /\ memoLog' = [memoLog EXCEPT !.calls = @ + 1,
                               !.last = [key |-> key, promise |-> shared, value |-> 0,
                                         invoked |-> FALSE]]
        ELSE /\ memo' = [memo EXCEPT !.cache = evictLRU(missed, now, MemoMaxSize),
                                      !.pendingPromises[key] = started]
             /\ memoLog' = [memoLog EXCEPT !.calls = @ + 1,
                               !.promises = Append(@, [key |-> key, state |-> "pending"]),
                               !.last = [key |-> key, promise |-> started, value |-> 0,
                                         invoked |-> TRUE]]
  /\ UNCHANGED <<now, nonMemoVars>>

\* fn's promise fulfils: .then((value) => { cache.set(key, {value, timestamp:
\* Date.now(), accessCount: ++accessCounter}); return value; })
MemoThen(p) ==
  /\ memoLog.promises[p].state = "pending"
  /\ LET key == memoLog.promises[p].key
     IN memo' = [memo EXCEPT !.cache[key] = [value |-> p, timestamp |-> now,
                                             accessCount |-> memo.accessCounter + 1],
                             !.accessCounter = @ + 1]
  /\ memoLog' = [memoLog EXCEPT !.promises[p].state = "settling"]
  /\ UNCHANGED <<now, nonMemoVars>>

\* fn's promise rejects: the then callback is skipped
MemoReject(p) ==
  /\ memoLog.promises[p].state = "pending"
  /\ memoLog' = [memoLog EXCEPT !.promises[p].state = "failing"]
  /\ UNCHANGED <<now, memo, nonMemoVars>>

\* .finally(() => { pendingPromises.delete(key); })
MemoFinally(p) ==
  /\ memoLog.promises[p].state \in {"settling", "failing"}
  /\ memo' = [memo EXCEPT !.pendingPromises[memoLog.promises[p].key] = 0]
  /\ memoLog' = [memoLog EXCEPT !.promises[p].state =
                    IF @ = "settling" THEN "fulfilled" ELSE "rejected"]
  /\ UNCHANGED <<now, nonMemoVars>>

\* memoizedAsync.clear = () => { cache.clear(); pendingPromises.clear(); }
MemoClear ==
  /\ memo' = [memo EXCEPT !.cache = [k \in MemoKeys |-> NoMemoEntry],
                          !.pendingPromises = [k \in MemoKeys |-> 0]]
  /\ memoLog' = [memoLog EXCEPT !.dropped =
                    @ \cup {k \in MemoKeys : memo.pendingPromises[k] # 0}]
  /\ UNCHANGED <<now, nonMemoVars>>

\* memoizedAsync.invalidate = (key) => cache.delete(key)
MemoInvalidate(key) ==
  /\ memo' = [memo EXCEPT !.cache[key] = NoMemoEntry]
  /\ UNCHANGED <<now, memoLog, nonMemoVars>>

MemoTick ==
  /\ \E t \in MemoTimes : t > now /\ now' = t
  /\ UNCHANGED <<memoVars, nonMemoVars>>

InitMemo ==
  /\ now = 0
  /\ CbInit
  /\ FetchInit
  /\ ManyInit
  /\ ProcessInit
  /\ RegInit
  /\ DqIdle
  /\ CacheIdle
  /\ FnIdle

NextMemo ==
  \/ \E key \in MemoKeys : MemoCall(key)
  \/ \E p \in 1..Len(memoLog.promises) : MemoThen(p)
  \/ \E p \in 1..Len(memoLog.promises) : MemoReject(p)
  \/ \E p \in 1..Len(memoLog.promises) : MemoFinally(p)
  \/ MemoClear
  \/ \E key \in MemoKeys : MemoInvalidate(key)
  \/ MemoTick

SpecMemo == InitMemo /\ [][NextMemo]_vars

\* ---- what SpecMemo's claims speak of ----
\* this step is a call with the key
MemoCalled(key) == memoLog'.calls = memoLog.calls + 1 /\ memoLog'.last.key = key

\* the invocations for the key whose promise has not settled yet
MemoUnsettled(key) ==
  {p \in 1..Len(memoLog.promises) :
     memoLog.promises[p].key = key /\ memoLog.promises[p].state = "pending"}

\* the invocations for the key that have settled
MemoSettled(key) ==
  {p \in 1..Len(memoLog.promises) :
     memoLog.promises[p].key = key /\ memoLog.promises[p].state # "pending"}

MaxValue == 2

ResultValues == 0..MaxValue

\* Ok(value), Err(error, errorCode = 'UNKNOWN_ERROR', context = ''): the data fields
OkOf(value) == [ok |-> TRUE, value |-> value]
ErrOf(error, errorCode, context) ==
  [ok |-> FALSE, error |-> error,
   errorCode |-> IF errorCode = "undefined" THEN "UNKNOWN_ERROR" ELSE errorCode,
   context |-> IF context = "undefined" THEN "" ELSE context]

Results ==
  {OkOf(value) : value \in ResultValues}
    \cup {ErrOf(error, errorCode, context) :
            error \in {"timeout", "refused"},
            errorCode \in {"undefined", "NETWORK_FAILURE", "CIRCUIT_OPEN"},
            context \in {"undefined", "Failed to fetch"}}

\* the functions given to map (value to value) and to flatMap (value to Result)
MapFns == {"increment", "zero"}
FlatMapFns == {"okIncrement", "fail"}
Apply(fn, value) ==
  CASE fn = "increment" -> value + 1
    [] fn = "zero" -> 0
    [] fn = "okIncrement" -> OkOf(value + 1)
    [] fn = "fail" -> ErrOf("failed", "VALIDATION_FAILED", "undefined")

\* map: (fn) => Ok(fn(value))  |  map: () => Err(error, errorCode, context)
mapMutDropsCode(r, fn) ==
  IF r.ok
  THEN [returned |-> OkOf(Apply(fn, r.value)), invoked |-> <<fn>>]
  ELSE [returned |-> ErrOf(r.error, "undefined", "undefined"), invoked |-> <<>>]

map(r, fn) ==
  IF r.ok
  THEN [returned |-> OkOf(Apply(fn, r.value)), invoked |-> <<fn>>]
  ELSE [returned |-> ErrOf(r.error, r.errorCode, r.context), invoked |-> <<>>]

\* flatMap: (fn) => fn(value)  |  flatMap: () => Err(error, errorCode, context)
flatMap(r, fn) ==
  IF r.ok
  THEN [returned |-> Apply(fn, r.value), invoked |-> <<fn>>]
  ELSE [returned |-> ErrOf(r.error, r.errorCode, r.context), invoked |-> <<>>]

\* unwrapOr: () => value  |  unwrapOr: (defaultValue) => defaultValue
unwrapOr(r, defaultValue) ==
  [returned |-> IF r.ok THEN r.value ELSE defaultValue, invoked |-> <<>>]

\* match: (handlers) => handlers.ok(value)  |  handlers.err(error, errorCode, context);
\* a handler returns its arguments
match(r) ==
  IF r.ok
  THEN [returned |-> <<r.value>>, invoked |-> <<"ok">>]
  ELSE [returned |-> <<r.error, r.errorCode, r.context>>, invoked |-> <<"err">>]

ResultApply(op, arg, applied) ==
  /\ output' = [op |-> op, arg |-> arg, returned |-> applied.returned,
                invoked |-> applied.invoked]
  /\ UNCHANGED <<input, memoVars, captures, processVars, nonFnVars>>

InitResult ==
  /\ now = 0
  /\ CbInit
  /\ FetchInit
  /\ ManyInit
  /\ ProcessInit
  /\ RegInit
  /\ DqIdle
  /\ CacheIdle
  /\ MemoIdle
  /\ CapturesIdle
  /\ input \in Results
  /\ output = [op |-> "none"]

NextResult ==
  \/ \E fn \in MapFns : ResultApply("map", fn, map(input, fn))
  \/ \E fn \in FlatMapFns : ResultApply("flatMap", fn, flatMap(input, fn))
  \/ \E defaultValue \in ResultValues :
       ResultApply("unwrapOr", defaultValue, unwrapOr(input, defaultValue))
  \/ ResultApply("match", "handlers", match(input))

SpecResult == InitResult /\ [][NextResult]_vars

\* C28: on an Err, map and flatMap invoke nothing and return a failure with the
\* same error, error code and context; unwrapOr returns the default it is given;
\* match invokes the error arm and nothing else
C28_ErrPassesThrough ==
  (~input.ok /\ output.op # "none") =>
    /\ output.op \in {"map", "flatMap"} =>
         /\ output.invoked = <<>>
         /\ ~output.returned.ok
         /\ output.returned.error = input.error
         /\ output.returned.errorCode = input.errorCode
         /\ output.returned.context = input.context
    /\ output.op = "unwrapOr" => output.returned = output.arg /\ output.invoked = <<>>
    /\ output.op = "match" => output.invoked = <<"err">>

\* map applied to Err('refused', 'CIRCUIT_OPEN', 'Failed to fetch')
C28_Witness ==
  /\ input = ErrOf("refused", "CIRCUIT_OPEN", "Failed to fetch")
  /\ output.op = "map"
  /\ output.arg = "increment"
  /\ output.returned = input

(***************************************************************************)
(* Several fetchResources calls at the same time (two captures in one      *)
(* process, or the calls of two processHtml calls): each call runs its own *)
(* mapAsync (utils.js:83-101) with its own executing set, over its own     *)
(* list of URLs, here the numbers 1..n. A promise is created, then         *)
(* fetching (fetchResource has issued its network fetch) or running        *)
(* (fetchResource is answered without one), then settled.                  *)
(***************************************************************************)
MaxCaptureUrls == 3

Captures == {1, 2}

\* const results = []; const executing = new Set(); let i = 0
NewCapture(n) == [urls |-> [i \in 1..n |-> i], i |-> 1, pc |-> "loop",
                  promises |-> <<>>, executing |-> {}]

\* one pass of the for loop's body in capture k
CapIterate(k) ==
  LET c == captures[k]
      added == c.executing \cup {c.i}
  IN /\ c.pc = "loop"
     /\ c.i <= Len(uniqueUrls(c.urls))
     /\ captures' = [captures EXCEPT ![k] =
                       [c EXCEPT !.promises = Append(@, "created"),
                                 !.executing = added,
                                 !.i = @ + 1,
                                 !.pc = IF MustAwait(added) THEN "await" ELSE "loop"]]
     /\ UNCHANGED nonCaptureVars

\* the for loop of capture k ends: return Promise.all(results)
CapLoopEnd(k) ==
  /\ captures[k].pc = "loop"
  /\ captures[k].i > Len(uniqueUrls(captures[k].urls))
  /\ captures' = [captures EXCEPT ![k].pc = "all"]
  /\ UNCHANGED nonCaptureVars

\* the microtask of item i runs the mapper: fetchResource(url, config) is called,
\* and issues its fetch() unless the cache or the breaker answers
CapStart(k, i, network) ==
  /\ captures[k].pc # "loop"
  /\ i \in 1..Len(captures[k].promises)
  /\ captures[k].promises[i] = "created"
  /\ captures' = [captures EXCEPT ![k].promises[i] =
                    IF network THEN "fetching" ELSE "running"]
  /\ UNCHANGED nonCaptureVars

\* fetchResource of item i returned: the promise settles, cleanup, a pending race
\* settles
CapComplete(k, i) ==
  /\ i \in 1..Len(captures[k].promises)
  /\ captures[k].promises[i] \in {"fetching", "running"}
  /\ captures' = [captures EXCEPT ![k].promises[i] = "fulfilled",
                                  ![k].executing = @ \ {i},
                                  ![k].pc = IF @ = "await" THEN "loop" ELSE @]
  /\ UNCHANGED nonCaptureVars

\* Promise.all(results) of capture k settles
CapReturn(k) ==
  /\ captures[k].pc = "all"
  /\ \A i \in 1..Len(captures[k].promises) : captures[k].promises[i] = "fulfilled"
  /\ captures' = [captures EXCEPT ![k].pc = "returned"]
  /\ UNCHANGED nonCaptureVars

InitCaptures ==
  /\ now = 0
  /\ CbInit
  /\ FetchInit
  /\ ManyInit
  /\ ProcessInit
  /\ RegInit
  /\ DqIdle
  /\ CacheIdle
  /\ MemoIdle
  /\ input = <<>>
  /\ output = [op |-> "none"]
  /\ captures \in [Captures -> {NewCapture(n) : n \in 1..MaxCaptureUrls}]

NextCaptures ==
  \/ \E k \in Captures : CapIterate(k)
  \/ \E k \in Captures : CapLoopEnd(k)
  \/ \E k \in Captures, i \in 1..MaxCaptureUrls, network \in BOOLEAN : CapStart(k, i, network)
  \/ \E k \in Captures, i \in 1..MaxCaptureUrls : CapComplete(k, i)
  \/ \E k \in Captures : CapReturn(k)

SpecCaptures == InitCaptures /\ [][NextCaptures]_vars

\* the network fetches outstanding, over all the calls
Fetching ==
  {<<k, i>> \in (DOMAIN captures) \X (1..MaxCaptureUrls) :
     i <= Len(captures[k].promises) /\ captures[k].promises[i] = "fetching"}

\* C32: over all the fetchResources calls running in the process, at most 5
\* network fetches are outstanding at every instant
C32_AtMostFiveOverall == Cardinality(Fetching) <= concurrency

(***************************************************************************)
(* processHtml called again and again for one page (html-processor.js:     *)
(* 350-436), its fetchResource calls answered from the resource cache      *)
(* where it holds the URL (part_005:137-141) and storing what they fetch   *)
(* (part_005:196). The cache is shared with the other captures of the      *)
(* process, which store resources in it at any time. The clock stands      *)
(* still: no entry expires and the cache stays far from maxSize.           *)
(* fetchResource looks the cache up before its first await, so the hits    *)
(* of a level are known when fetchResources is called; they are put into   *)
(* primaryResources at once, where nothing reads them before the merge.    *)
(* The calls are made without a progress callback.                         *)
(***************************************************************************)
MaxRuns == 2

\* how a fetch the cache does not answer can end
RepeatOutcomes == {"ok", "NETWORK_FAILURE"}

\* what the history keeps of a call: whether it returned Ok, and the stats
NoStats ==
  [totalResources |-> 0, successfulFetches |-> 0, failedFetches |-> 0,
   stylesheets |-> 0, scripts |-> 0, images |-> 0]
RunResult(result) ==
  [ok |-> result.ok, stats |-> IF result.ok THEN result.value.stats ELSE NoStats]

\* the results of the fetchResource calls the cache answers
CacheHits(c, list) ==
  [url \in {u \in Range(list) : cacheGet(c, u, now).found} |->
     Ok(cacheGet(c, url, now).value)]

\* the cache after the cache.get calls of list
RECURSIVE cacheAfterGets(_, _)
cacheAfterGets(c, list) ==
  IF list = <<>> THEN c
  ELSE cacheAfterGets(cacheAfterGet(c, Head(list), now), Tail(list))

\* the Map fetchResources(list) returns: hits for the URLs the cache held,
\* and for the others what outcome says
fetchResourcesCached(list, hits, outcome) ==
  [url \in Range(list) |->
     IF url \in DOMAIN hits THEN hits[url]
     ELSE IF outcome[url] = "ok" THEN Ok(Resource(url)) ELSE Err(outcome[url])]

\* the cache after the resourceCache.set calls of the URLs of list fetched with success
RECURSIVE cacheSets(_, _, _, _)
cacheSets(c, list, hits, outcome) ==
  IF list = <<>> THEN c
  ELSE cacheSets(IF Head(list) \notin DOMAIN hits /\ outcome[Head(list)] = "ok"
                 THEN cacheSet(c, Head(list), Resource(Head(list)), now)
                 ELSE c,
                 Tail(list), hits, outcome)

\* every resource of a page: what it references and what its stylesheets reference
PageResources(page) ==
  Range(AllUrls(page)) \cup
    UNION {Range(extractCssUrls(sheets[u])) : u \in Range(AllUrls(page)) \cap DOMAIN sheets}

\* every resource of the page is in the cache, unexpired
Warm == \A u \in PageResources(html) : Unexpired(u)

\* processHtml is called: the URLs are extracted, fetchResources(allUrls) is awaited
RpCall ==
  /\ procPc = "idle"
  /\ Len(procRuns) < MaxRuns
  /\ procPc' = "primary"
  /\ primaryResources' = CacheHits(cache, unique(AllUrls(html)))
  /\ cache' = cacheAfterGets(cache, unique(AllUrls(html)))
  /\ procRuns' = Append(procRuns, [warm |-> Warm, returned |-> FALSE,
                                  result |-> [ok |-> FALSE, stats |-> NoStats]])
  /\ UNCHANGED <<now, html, sheets, cssUrls, procResult, procError, procEvents,
                 nonRepeatVars>>

\* the primary fetches are done: the second level URLs are collected, and
\* fetched if there are any
RpPrimaryFetched(outcome) ==
  /\ procPc = "primary"
  /\ LET list == unique(AllUrls(html))
         resources == fetchResourcesCached(list, primaryResources, outcome)
         stored == cacheSets(cache, list, primaryResources, outcome)
         css == SecondLevel(list, resources)
     IN /\ cssUrls' = css
        /\ IF Len(css) > 0
           THEN /\ primaryResources' = Merge(resources, CacheHits(stored, unique(css)))
                /\ cache' = cacheAfterGets(stored, unique(css))
                /\ procPc' = "css"
                /\ UNCHANGED <<procResult, procError>>
           ELSE /\ cache' = stored
                /\ Finish(resources, css)
  /\ UNCHANGED <<now, html, sheets, procRuns, procEvents, nonRepeatVars>>

\* the second level fetches are done: they are merged into primaryResources
RpCssFetched(outcome) ==
  /\ procPc = "css"
  /\ LET list == unique(cssUrls)
         hits == [url \in DOMAIN primaryResources \cap Range(list) |-> primaryResources[url]]
     IN /\ cache' = cacheSets(cache, list, hits, outcome)
        /\ Finish(Merge(primaryResources, fetchResourcesCached(list, hits, outcome)),
                  cssUrls)
  /\ UNCHANGED <<now, html, sheets, cssUrls, procRuns, procEvents, nonRepeatVars>>

\* processHtml returns; the next call starts afresh
RpReturn ==
  /\ procPc = "done"
  /\ procRuns' = [procRuns EXCEPT ![Len(procRuns)].returned = TRUE,
                                   ![Len(procRuns)].result = RunResult(procResult)]
  /\ procPc' = "idle"
  /\ primaryResources' = <<>>
  /\ cssUrls' = <<>>
  /\ procResult' = NoResult
  /\ procError' = ""
  /\ UNCHANGED <<now, cache, html, sheets, procEvents, nonRepeatVars>>

\* the URLs of a set, in some order
RECURSIVE Listed(_)
Listed(set) ==
  IF set = {} THEN <<>>
  ELSE LET x == CHOOSE y \in set : TRUE IN <<x>> \o Listed(set \ {x})

\* other captures of the process fetched the resources of the page the cache does
\* not hold, and stored them
RpOtherCaptures ==
  /\ ~Warm
  /\ LET list == Listed(PageResources(html))
     IN cache' = cacheSets(cache, list, CacheHits(cache, list), [u \in Range(list) |-> "ok"])
  /\ UNCHANGED <<now, processVars, procRuns, nonRepeatVars>>

InitRepeat ==
  /\ now = 0
  /\ CbInit
  /\ FetchInit
  /\ ManyInit
  /\ html \in Pages
  /\ sheets \in {[url \in {CssUrl, ImportedCss} |->
                    IF url = CssUrl THEN css ELSE imported] :
                  css \in Sheets, imported \in ImportedSheets}
  /\ procPc = "idle"
  /\ primaryResources = <<>>
  /\ cssUrls = <<>>
  /\ procResult = NoResult
  /\ procError = ""
  /\ procRuns = <<>>
  /\ procEvents = <<>>
  /\ RegInit
  /\ FnIdle
  /\ DqIdle
  /\ CacheIdle

NextRepeat ==
  \/ RpCall
  \/ \E outcome \in [Range(AllUrls(html)) -> RepeatOutcomes] : RpPrimaryFetched(outcome)
  \/ \E outcome \in [Range(cssUrls) -> RepeatOutcomes] : RpCssFetched(outcome)
  \/ RpReturn
  \/ RpOtherCaptures

SpecRepeat == InitRepeat /\ [][NextRepeat]_vars

\* ---- what SpecRepeat's claims speak of ----
\* calls i and j have returned Ok
BothOk(i, j) ==
  /\ procRuns[i].returned /\ procRuns[i].result.ok
  /\ procRuns[j].returned /\ procRuns[j].result.ok

\* C19 as stated: of two processHtml calls for the page, the second made while every
\* resource of the page is in the cache, both returning Ok, the stats are the same
C19_SameStats ==
  \A i, j \in 1..Len(procRuns) :
    (i < j /\ procRuns[j].warm /\ BothOk(i, j)) =>
      procRuns[i].result.stats = procRuns[j].result.stats

\* C19 amended: two processHtml calls for the page, both made while every resource of
\* the page is in the cache, return the same: both Ok with the same stats, or both Err
C19_SameStatsBothWarm ==
  \A i, j \in 1..Len(procRuns) :
    (i < j /\ procRuns[i].warm /\ procRuns[j].warm
       /\ procRuns[i].returned /\ procRuns[j].returned) =>
      /\ procRuns[i].result.ok = procRuns[j].result.ok
      /\ procRuns[i].result.ok =>
           procRuns[i].result.stats = procRuns[j].result.stats

C19_Witness ==
  /\ Len(procRuns) = 2
  /\ procRuns[1].warm /\ procRuns[2].warm
  /\ BothOk(1, 2)
  /\ procRuns[2].result.stats.totalResources = 4
  /\ procRuns[2].result.stats.successfulFetches = 4
  /\ procRuns[2].result.stats.failedFetches = 0
  /\ procRuns[2].result.stats.stylesheets = 1
  /\ procRuns[2].result.stats.images = 1
====
